---- MODULE Spec2Model ----
(***************************************************************************)
(* Transaction ledger and synchronization clients of                        *)
(* p2p-transaction-relayer-svc-rs.                                          *)
(*                                                                         *)
(* LedgerSpec : one TxEndpoint (tx-endpoint.rs) driven by create and by     *)
(*              process_transaction on arbitrary transactions.              *)
(* Spec       : one Synchronization Client (relay client ws-tx-endpoint or  *)
(*              direct-channel client tx-endpoint-v2, fixed at start) under *)
(*              user clicks, socket events and any signaling message.       *)
(* NetSpec    : two clients of the same kind joined through the signaling   *)
(*              room; the room's relay is outside the repository's sources. *)
(* MsgSpec    : one client and the frames its socket hands to onmessage,    *)
(*              well-formed or not, with the last run on record.            *)
(* PairSpec   : two clients told of the same membership changes in the two  *)
(*              possible orders.                                            *)
(* GatewaySpec: the transaction log service (api-gateway) over its table.   *)
(* LookupSpec : the gateway's get_transaction_by_id and get_transactions   *)
(*              over records with two timestamps and three endpoints.      *)
(* StatsSpec  : the gateway's get_stats and get_endpoint_stats.             *)
(* ReappendSpec: appends of ids already in the log, read back by          *)
(*              get_transaction_by_id and get_stats.                       *)
(* StatusSpec : one client under the frames and the events of its socket.  *)
(* SendSpec   : the Send Transaction handler on any values of its form.    *)
(*                                                                         *)
(* Amounts and balances are f64 in the source; the model uses integers     *)
(* (whole units), which is exact for the sums and comparisons taken here.   *)
(* Transaction.timestamp (js Date::now) is display-only in the clients and  *)
(* is not carried by the client-side transaction records.                   *)
(***************************************************************************)
EXTENDS Integers, Sequences, FiniteSets, TLC

\* ------------------------------------------------------------------ bounds
\* transactions known to the stand-alone ledger
MaxLedgerTx == 2
\* process_transaction calls on the stand-alone ledger
MaxApplies == 3
\* transactions created during a run of the clients
MaxTx == 2
\* requests the gateway takes during a run
MaxRequests == 4
\* requests the gateway takes during a run of lookups
MaxLookups == 3

\* ------------------------------------------------------- program constants
StartingBalance == 1000
\* the limit of get_transactions when the request names none
DefaultLimit == 100

\* ------------------------------------------------------------- input sets
Endpoints == {"A", "B", "C"}
Amounts == {0, 150, 1200}
\* the endpoints that run a client, and the peer ids messages may name
Clients == {"A", "B"}
PeerIds == {"A", "B"}
\* the client's kind: relay client (lib.rs of ws-tx-endpoint) or
\* direct-channel client (lib.rs of tx-endpoint-v2)
Variants == {"ws", "v2"}

VARIABLES
    ledger,      \* the stand-alone TxEndpoint {id, balance, transaction_count}
    ledgerTxs,   \* transactions that exist (created locally or received), by index = id
    ledgerOk,    \* ids whose process_transaction has returned Ok on this ledger
    ledgerCalls, \* number of process_transaction calls made so far
    ledgerLast,  \* the last operation on the stand-alone ledger and its result
    variant,     \* which client program runs
    client,      \* per endpoint: the hooks of app() and its connection
    pool,        \* every transaction created so far; index = id (uuids are fresh)
    wire,        \* per endpoint: the frames its socket has sent, in order
    relayed,     \* per endpoint: how many of its frames the relay has taken
    room,        \* the relay's members of "transaction-room"
    inbox,       \* per endpoint: frames the relay has sent it, not yet handled
    ledgerLog,   \* per endpoint: ids of the process_transaction calls that changed its ledger
    last,        \* the last client step
    tx_log,      \* the gateway's table transactions.tx_log: its rows
    store_up,    \* whether the store answers the gateway's queries
    appended,    \* the request ids whose create_transaction returned 201
    history,     \* the requests whose create_transaction returned 201, in order
    pending,     \* a get_stats between its two queries: what the first one gave
    resp,        \* the gateway's last response
    served       \* the number of requests the gateway has taken

ledgerVars == <<ledger, ledgerTxs, ledgerOk, ledgerCalls, ledgerLast>>

clientVars == <<variant, client, pool, wire, relayed, room, inbox, ledgerLog, last>>

gatewayVars == <<tx_log, store_up, appended, history, pending, resp, served>>

vars == <<ledger, ledgerTxs, ledgerOk, ledgerCalls, ledgerLast,
          variant, client, pool, wire, relayed, room, inbox, ledgerLog, last,
          tx_log, store_up, appended, history, pending, resp, served>>

\* ------------------------------------------------------------ TxEndpoint
TxEndpointNew(id) ==
    [id |-> id, balance |-> StartingBalance, transaction_count |-> 0]

\* process_transaction with the balance test left out
ProcessTransactionUnchecked(ep, tx) ==
    IF tx.from = ep.id
    THEN [result |-> "Ok",
          ep |-> [ep EXCEPT !.balance = @ - tx.amount, !.transaction_count = @ + 1]]
    ELSE IF tx.to = ep.id
    THEN [result |-> "Ok",
          ep |-> [ep EXCEPT !.balance = @ + tx.amount, !.transaction_count = @ + 1]]
    ELSE [result |-> "Ok", ep |-> [ep EXCEPT !.transaction_count = @ + 1]]

\* process_transaction that debits before it tests the balance
ProcessTransactionDebitFirst(ep, tx) ==
    IF tx.from = ep.id
    THEN IF ep.balance < tx.amount
         THEN [result |-> "InsufficientBalance",
               ep |-> [ep EXCEPT !.balance = @ - tx.amount]]
         ELSE [result |-> "Ok",
               ep |-> [ep EXCEPT !.balance = @ - tx.amount, !.transaction_count = @ + 1]]
    ELSE IF tx.to = ep.id
    THEN [result |-> "Ok",
          ep |-> [ep EXCEPT !.balance = @ + tx.amount, !.transaction_count = @ + 1]]
    ELSE [result |-> "Ok", ep |-> [ep EXCEPT !.transaction_count = @ + 1]]

\* process_transaction that credits the amount of a transaction between two
\* other endpoints as well
ProcessTransactionCreditingAll(ep, tx) ==
    IF tx.from = ep.id
    THEN IF ep.balance < tx.amount
         THEN [result |-> "InsufficientBalance", ep |-> ep]
         ELSE [result |-> "Ok",
               ep |-> [ep EXCEPT !.balance = @ - tx.amount, !.transaction_count = @ + 1]]
    ELSE [result |-> "Ok",
          ep |-> [ep EXCEPT !.balance = @ + tx.amount, !.transaction_count = @ + 1]]

\* process_transaction that leaves a debit uncounted
ProcessTransactionUncounted(ep, tx) ==
    IF tx.from = ep.id
    THEN IF ep.balance < tx.amount
         THEN [result |-> "InsufficientBalance", ep |-> ep]
         ELSE [result |-> "Ok", ep |-> [ep EXCEPT !.balance = @ - tx.amount]]
    ELSE IF tx.to = ep.id
    THEN [result |-> "Ok",
          ep |-> [ep EXCEPT !.balance = @ + tx.amount, !.transaction_count = @ + 1]]
    ELSE [result |-> "Ok", ep |-> [ep EXCEPT !.transaction_count = @ + 1]]

\* TxEndpoint::process_transaction: the endpoint after the call and the
\* Result ("Ok" or Err("Insufficient balance")).
ProcessTransaction(ep, tx) ==
    IF tx.from = ep.id
    THEN IF ep.balance < tx.amount
         THEN [result |-> "InsufficientBalance", ep |-> ep]
         ELSE [result |-> "Ok",
               ep |-> [ep EXCEPT !.balance = @ - tx.amount, !.transaction_count = @ + 1]]
    ELSE IF tx.to = ep.id
    THEN [result |-> "Ok",
          ep |-> [ep EXCEPT !.balance = @ + tx.amount, !.transaction_count = @ + 1]]
    ELSE [result |-> "Ok", ep |-> [ep EXCEPT !.transaction_count = @ + 1]]

\* TxEndpoint::create_transaction; id is the fresh uuid.
CreateTransaction(ep, id, to, amount) ==
    [id |-> id, from |-> ep.id, to |-> to, amount |-> amount,
     signature |-> <<"sig_", ep.transaction_count>>, status |-> "pending"]

\* ------------------------------------------------------- shared helpers
\* Option<T>: None is the empty sequence, Some(x) the one-element sequence
None == <<>>
Some(x) == <<x>>
IsSome(o) == Len(o) = 1
Unwrap(o) == o[1]

\* contains that never finds the element
ContainsNever(s, x) == FALSE

\* Vec::contains
Contains(s, x) == \E i \in 1..Len(s) : s[i] = x

\* retain with the test the wrong way round: only x is kept
RetainOnly(s, x) == SelectSeq(s, LAMBDA p : p = x)

\* Vec::retain(|p| p != x)
Retain(s, x) == SelectSeq(s, LAMBDA p : p # x)

\* HashMap::insert: a later insert of the same key replaces the value
Insert(m, k, v) == [x \in (DOMAIN m) \cup {k} |-> IF x = k THEN v ELSE m[x]]

\* ------------------------------------------------------------ the clients
\* SignalingMessage as the handlers read it (the fields lib.rs matches on)
Msg(type, peer_id, transaction, peers) ==
    [message_type |-> type, peer_id |-> peer_id,
     transaction |-> transaction, peers |-> peers]

\* the hooks of app() at first render and WebSocketConnection::new
ClientNew(id) ==
    [endpoint_id |-> id,
     tx_endpoint |-> TxEndpointNew(id),
     transactions |-> <<>>,
     connected_peers |-> <<>>,
     connection_status |-> "Disconnected",
     webrtc_status |-> "Not Connected",
     error_message |-> "",
     mounted |-> FALSE,
     ws |-> "none",
     join_timer |-> "unset"]

\* the Transaction literal of the click handlers
NewTransaction(v, kind, cl, id, to, amount) ==
    [id |-> id, from |-> cl.endpoint_id, to |-> to, amount |-> amount,
     signature |-> <<IF v = "ws" THEN "sig_"
                     ELSE IF kind = "manual" THEN "webrtc_sig_" ELSE "webrtc_test_",
                     cl.tx_endpoint.transaction_count>>,
     status |-> IF v = "ws" THEN "pending" ELSE "confirmed"]

\* a send_transaction that fails when the connection holds no socket
SendTransactionRequiringSocket(cl, tx) ==
    IF cl.ws \in {"none", "connecting"} THEN [result |-> "Err", frames |-> <<>>]
    ELSE IF cl.ws = "closed" THEN [result |-> "Ok", frames |-> <<>>]
    ELSE [result |-> "Ok",
          frames |-> <<[message_type |-> "transaction",
                        room_id |-> Some("transaction-room"),
                        peer_id |-> Some(cl.endpoint_id),
                        target_peer |-> None,
                        transaction |-> Some(tx),
                        peers |-> None]>>]

\* WebSocketConnection::send_transaction. ws is the socket: "none" before a
\* successful connect; WebSocket.send throws while CONNECTING and drops the
\* frame without an error once CLOSED.
SendTransaction(cl, tx) ==
    IF cl.ws = "none" THEN [result |-> "Ok", frames |-> <<>>]
    ELSE IF cl.ws = "connecting" THEN [result |-> "Err", frames |-> <<>>]
    ELSE IF cl.ws = "closed" THEN [result |-> "Ok", frames |-> <<>>]
    ELSE [result |-> "Ok",
          frames |-> <<[message_type |-> "transaction",
                        room_id |-> Some("transaction-room"),
                        peer_id |-> Some(cl.endpoint_id),
                        target_peer |-> None,
                        transaction |-> Some(tx),
                        peers |-> None]>>]

\* WebRTCConnection::send_transaction (webrtc_connection.rs is not among the
\* sources): the transaction goes to the peers over the direct channel.
WebRTCSendTransaction(cl, tx) ==
    IF cl.ws = "open"
    THEN [result |-> "Ok",
          frames |-> <<[message_type |-> "transaction-p2p",
                        room_id |-> None,
                        peer_id |-> Some(cl.endpoint_id),
                        target_peer |-> None,
                        transaction |-> Some(tx),
                        peers |-> None]>>]
    ELSE IF cl.ws = "connecting" THEN [result |-> "Err", frames |-> <<>>]
    ELSE [result |-> "Ok", frames |-> <<>>]

ConnectionSend(v, cl, tx) ==
    IF v = "ws" THEN SendTransaction(cl, tx) ELSE WebRTCSendTransaction(cl, tx)

SendFailedMessage(v) ==
    IF v = "ws" THEN "Failed to send transaction" ELSE "Failed to send via WebRTC"

\* amount of the test button: Send Test $10 / Test $25 P2P
TestAmount(v) == IF v = "ws" THEN 10 ELSE 25

\* a click that builds no transaction
ClickNothing(cl) == [cl |-> cl, frames |-> <<>>, tx |-> None, result |-> "none"]

\* "Send Transaction" / "Send Direct P2P" onclick. to_peer is the select's
\* value, amount_str the input's: <<"empty">>, <<"bad">> (does not parse as
\* f64) or <<"num", n>>. id is the fresh uuid.
ClickSend(v, cl, id, to_peer, amount_str) ==
    IF to_peer = "" \/ amount_str[1] = "empty" THEN ClickNothing(cl)
    ELSE IF amount_str[1] # "num" THEN ClickNothing(cl)
    ELSE LET amount == amount_str[2] IN
         IF amount > 0 /\ amount <= cl.tx_endpoint.balance
         THEN LET tx == NewTransaction(v, "manual", cl, id, to_peer, amount)
                  r == ProcessTransaction(cl.tx_endpoint, tx)
                  s == ConnectionSend(v, cl, tx)
              IN [cl |-> [cl EXCEPT
                            !.tx_endpoint = r.ep,
                            !.transactions = Insert(@, tx.id, tx),
                            !.error_message =
                                IF s.result = "Err" THEN SendFailedMessage(v) ELSE @],
                  frames |-> s.frames, tx |-> Some(tx), result |-> r.result]
         ELSE [cl |-> [cl EXCEPT !.error_message =
                          "Invalid amount or insufficient balance"],
               frames |-> <<>>, tx |-> None, result |-> "none"]

\* "Send Test $10" / "Test $25 P2P" onclick: the first connected peer gets
\* the fixed amount; the results of process_transaction and of
\* send_transaction are both dropped (let _ =).
ClickTest(v, cl, id) ==
    IF cl.connected_peers = <<>> THEN ClickNothing(cl)
    ELSE LET tx == NewTransaction(v, "test", cl, id, cl.connected_peers[1],
                                  TestAmount(v))
             r == ProcessTransaction(cl.tx_endpoint, tx)
             s == ConnectionSend(v, cl, tx)
         IN [cl |-> [cl EXCEPT !.tx_endpoint = r.ep,
                               !.transactions = Insert(@, tx.id, tx)],
             frames |-> s.frames, tx |-> Some(tx), result |-> r.result]

ConnectingTo == [p \in PeerIds |->
                   IF p = "A" THEN "Connecting to A..." ELSE "Connecting to B..."]

\* the relay client's handler with a received transaction also applied to
\* the ledger, unguarded
HandleSignalingMessageWsApplying(cl, msg) ==
       CASE msg.message_type = "welcome" ->
              [cl EXCEPT !.connection_status = "Connected"]
         [] msg.message_type = "room-joined" ->
              [cl EXCEPT !.connection_status = "Connected",
                         !.connected_peers =
                             IF IsSome(msg.peers) THEN Unwrap(msg.peers) ELSE @]
         [] msg.message_type = "peer-joined" ->
              IF IsSome(msg.peer_id) /\ ~Contains(cl.connected_peers, Unwrap(msg.peer_id))
              THEN [cl EXCEPT !.connected_peers = Append(@, Unwrap(msg.peer_id))]
              ELSE cl
         [] msg.message_type = "peer-left" ->
              IF IsSome(msg.peer_id)
              THEN [cl EXCEPT !.connected_peers = Retain(@, Unwrap(msg.peer_id))]
              ELSE cl
         [] msg.message_type = "transaction-broadcast" ->
              IF IsSome(msg.transaction)
              THEN [cl EXCEPT
                      !.tx_endpoint = ProcessTransaction(@, Unwrap(msg.transaction)).ep,
                      !.transactions =
                       Insert(@, Unwrap(msg.transaction).id, Unwrap(msg.transaction))]
              ELSE cl
         [] msg.message_type = "error" ->
              [cl EXCEPT !.error_message = "Connection error occurred"]
         [] OTHER -> cl

\* handle_signaling_message of the relay client. The handler is passed the
\* connection status, the peers, the transaction log and the error message;
\* it has no handle on tx_endpoint.
HandleSignalingMessageWs(cl, msg) ==
       CASE msg.message_type = "welcome" ->
              [cl EXCEPT !.connection_status = "Connected"]
         [] msg.message_type = "room-joined" ->
              [cl EXCEPT !.connection_status = "Connected",
                         !.connected_peers =
                             IF IsSome(msg.peers) THEN Unwrap(msg.peers) ELSE @]
         [] msg.message_type = "peer-joined" ->
              IF IsSome(msg.peer_id) /\ ~Contains(cl.connected_peers, Unwrap(msg.peer_id))
              THEN [cl EXCEPT !.connected_peers = Append(@, Unwrap(msg.peer_id))]
              ELSE cl
         [] msg.message_type = "peer-left" ->
              IF IsSome(msg.peer_id)
              THEN [cl EXCEPT !.connected_peers = Retain(@, Unwrap(msg.peer_id))]
              ELSE cl
         [] msg.message_type = "transaction-broadcast" ->
              IF IsSome(msg.transaction)
              THEN [cl EXCEPT !.transactions =
                       Insert(@, Unwrap(msg.transaction).id, Unwrap(msg.transaction))]
              ELSE cl
         [] msg.message_type = "error" ->
              [cl EXCEPT !.error_message = "Connection error occurred"]
         [] OTHER -> cl

\* handle_signaling_message of the direct-channel client. seen_empty is what
\* connected_peers.is_empty() yields at line 488: the handler reads the list
\* through the hook handle it captured when the effect ran.
HandleSignalingMessageV2(cl, msg, seen_empty) ==
       CASE msg.message_type = "welcome" ->
              [cl EXCEPT !.connection_status = "Connected"]
         [] msg.message_type = "room-joined" ->
              [cl EXCEPT !.connection_status = "Connected",
                         !.webrtc_status =
                             IF IsSome(msg.peers) THEN "Establishing P2P..." ELSE @]
         [] msg.message_type = "peer-joined" ->
              IF IsSome(msg.peer_id)
              THEN [cl EXCEPT !.webrtc_status = ConnectingTo[Unwrap(msg.peer_id)]]
              ELSE cl
         [] msg.message_type = "webrtc-connected" ->
              IF IsSome(msg.peer_id)
              THEN [cl EXCEPT
                      !.connected_peers =
                          IF Contains(@, Unwrap(msg.peer_id)) THEN @
                          ELSE Append(@, Unwrap(msg.peer_id)),
                      !.webrtc_status = "Connected"]
              ELSE cl
         [] msg.message_type = "webrtc-disconnected" ->
              IF IsSome(msg.peer_id)
              THEN [cl EXCEPT
                      !.connected_peers = Retain(@, Unwrap(msg.peer_id)),
                      !.webrtc_status = IF seen_empty THEN "Not Connected" ELSE @]
              ELSE cl
         [] msg.message_type = "transaction-p2p" ->
              IF IsSome(msg.transaction)
              THEN [cl EXCEPT !.transactions =
                       Insert(@, Unwrap(msg.transaction).id, Unwrap(msg.transaction))]
              ELSE cl
         [] msg.message_type = "error" ->
              [cl EXCEPT !.error_message = "WebRTC connection error occurred"]
         [] OTHER -> cl

\* the handler with error also taken as the loss of the connection: status
\* and peers are reset
HandleSignalingMessageResetting(v, cl, msg, seen_empty) ==
    LET r == IF v = "ws" THEN HandleSignalingMessageWs(cl, msg)
             ELSE HandleSignalingMessageV2(cl, msg, seen_empty)
    IN IF msg.message_type = "error"
       THEN [r EXCEPT !.connection_status = "Disconnected", !.connected_peers = <<>>]
       ELSE r

\* a handler that adds the snapshot of a room-joined to the peers it tracks
HandleSignalingMessageMerging(v, cl, msg, seen_empty) ==
    LET r == IF v = "ws" THEN HandleSignalingMessageWs(cl, msg)
             ELSE HandleSignalingMessageV2(cl, msg, seen_empty)
    IN IF msg.message_type = "room-joined" /\ IsSome(msg.peers)
       THEN [r EXCEPT !.connected_peers =
                cl.connected_peers
                  \o SelectSeq(Unwrap(msg.peers),
                               LAMBDA q : \A k \in 1..Len(cl.connected_peers) :
                                             cl.connected_peers[k] # q)]
       ELSE r

\* the message handler the connection was given at connect
HandleSignalingMessage(v, cl, msg, seen_empty) ==
    IF v = "ws" THEN HandleSignalingMessageWs(cl, msg)
    ELSE HandleSignalingMessageV2(cl, msg, seen_empty)

\* what is_empty() at v2 line 488 can yield: the list as the captured handle
\* holds it (empty, the value at mount) or the list just updated
SeenEmpty(v, cl, msg) ==
    IF v = "v2" /\ msg.message_type = "webrtc-disconnected" /\ IsSome(msg.peer_id)
    THEN {TRUE, Retain(cl.connected_peers, Unwrap(msg.peer_id)) = <<>>}
    ELSE {TRUE}

\* ------------------------------------------------- the stand-alone ledger
NoOp == [op |-> "none"]

\* last: the latest step if it was a click or the handling of a message that
\* carries a transaction (with the endpoint as it was before); NoStep
\* after any other step
NoStep == [op |-> "none", c |-> "", type |-> "", tx |-> None, result |-> "none",
           before |-> TxEndpointNew("")]

Step(op, c, type, tx, result, before) ==
    [op |-> op, c |-> c, type |-> type, tx |-> tx, result |-> result,
     before |-> before]

\* every endpoint's page freshly loaded, nothing sent, the room empty
ClientsStart(v) ==
    /\ variant = v
    /\ client = [c \in Clients |-> ClientNew(c)]
    /\ pool = <<>>
    /\ wire = [c \in Clients |-> <<>>]
    /\ relayed = [c \in Clients |-> 0]
    /\ room = {}
    /\ inbox = [c \in Clients |-> <<>>]
    /\ ledgerLog = [c \in Clients |-> <<>>]
    /\ last = NoStep

LedgerStart ==
    /\ ledger = TxEndpointNew("A")
    /\ ledgerTxs = <<>>
    /\ ledgerOk = {}
    /\ ledgerCalls = 0
    /\ ledgerLast = NoOp

\* the gateway after init_database: the table is there and holds no row
GatewayStart ==
    /\ tx_log = {}
    /\ store_up = TRUE
    /\ appended = {}
    /\ history = <<>>
    /\ pending = <<>>
    /\ resp = [op |-> "none"]
    /\ served = 0

LedgerInit == LedgerStart /\ ClientsStart("ws") /\ GatewayStart

\* create_transaction that also applies what it builds
LedgerCreateApplying(to, amount) ==
    /\ Len(ledgerTxs) < MaxLedgerTx
    /\ LET tx == CreateTransaction(ledger, Len(ledgerTxs) + 1, to, amount)
       IN /\ ledgerTxs' = Append(ledgerTxs, tx)
          /\ ledger' = ProcessTransaction(ledger, tx).ep
          /\ ledgerLast' = [op |-> "create", tx |-> tx, before |-> ledger,
                            to |-> to, amount |-> amount]
    /\ UNCHANGED <<ledgerOk, ledgerCalls>>
    /\ UNCHANGED clientVars
    /\ UNCHANGED gatewayVars

\* the owner calls create_transaction (uuid v4 ids are fresh); ledgerLast
\* keeps the arguments of the call
LedgerCreate(to, amount) ==
    /\ Len(ledgerTxs) < MaxLedgerTx
    /\ LET tx == CreateTransaction(ledger, Len(ledgerTxs) + 1, to, amount)
       IN /\ ledgerTxs' = Append(ledgerTxs, tx)
          /\ ledgerLast' = [op |-> "create", tx |-> tx, before |-> ledger,
                            to |-> to, amount |-> amount]
    /\ UNCHANGED <<ledger, ledgerOk, ledgerCalls>>
    /\ UNCHANGED clientVars
    /\ UNCHANGED gatewayVars

\* a transaction made elsewhere becomes known (any sender, any receiver)
LedgerLearn(from, to, amount) ==
    /\ Len(ledgerTxs) < MaxLedgerTx
    /\ LET tx == [id |-> Len(ledgerTxs) + 1, from |-> from, to |-> to,
                  amount |-> amount, signature |-> <<"sig_", 0>>,
                  status |-> "pending"]
       IN /\ ledgerTxs' = Append(ledgerTxs, tx)
          /\ ledgerLast' = [op |-> "learn", tx |-> tx, before |-> ledger]
    /\ UNCHANGED <<ledger, ledgerOk, ledgerCalls>>
    /\ UNCHANGED clientVars
    /\ UNCHANGED gatewayVars

\* process_transaction on a known transaction, for the first time or again
LedgerApply(i) ==
    /\ ledgerCalls < MaxApplies
    /\ LET tx == ledgerTxs[i]
           r == ProcessTransaction(ledger, tx)
       IN /\ ledger' = r.ep
          /\ ledgerOk' = IF r.result = "Ok" THEN ledgerOk \cup {tx.id} ELSE ledgerOk
          /\ ledgerLast' = [op |-> "apply", tx |-> tx, result |-> r.result,
                            before |-> ledger, replay |-> tx.id \in ledgerOk]
    /\ ledgerCalls' = ledgerCalls + 1
    /\ UNCHANGED ledgerTxs
    /\ UNCHANGED clientVars
    /\ UNCHANGED gatewayVars

LedgerNext ==
    \/ \E to \in Endpoints, amount \in Amounts : LedgerCreate(to, amount)
    \/ \E from \in Endpoints, to \in Endpoints, amount \in Amounts :
          LedgerLearn(from, to, amount)
    \/ \E i \in 1..Len(ledgerTxs) : LedgerApply(i)

LedgerSpec == LedgerInit /\ [][LedgerNext]_vars

\* ---------------------------------------------------- steps of a client
\* the mount effect: WebSocketConnection::connect. WebSocket::new either
\* yields a socket (still connecting) and the 100 ms join timer is armed, or
\* fails and the error is shown.
Mount(c, ok) ==
    /\ ~client[c].mounted
    /\ client' = [client EXCEPT ![c] =
                    IF ok
                    THEN [@ EXCEPT !.mounted = TRUE, !.ws = "connecting",
                                   !.join_timer = "pending"]
                    ELSE [@ EXCEPT !.mounted = TRUE,
                                   !.error_message = "Connection failed"]]
    /\ last' = NoStep
    /\ UNCHANGED <<variant, pool, wire, relayed, room, inbox, ledgerLog>>
    /\ UNCHANGED ledgerVars
    /\ UNCHANGED gatewayVars

\* onopen: the socket reaches OPEN; the callback only logs
SocketOpen(c) ==
    /\ client[c].ws = "connecting"
    /\ client' = [client EXCEPT ![c].ws = "open"]
    /\ last' = NoStep
    /\ UNCHANGED <<variant, pool, wire, relayed, room, inbox, ledgerLog>>
    /\ UNCHANGED ledgerVars
    /\ UNCHANGED gatewayVars

\* an onclose that takes the client back to Disconnected with no peers
SocketCloseResetting(c) ==
    /\ client[c].ws \in {"connecting", "open"}
    /\ client' = [client EXCEPT ![c].ws = "closed",
                                ![c].connection_status = "Disconnected",
                                ![c].connected_peers = <<>>]
    /\ last' = NoStep
    /\ UNCHANGED <<variant, pool, wire, relayed, room, inbox, ledgerLog>>
    /\ UNCHANGED ledgerVars
    /\ UNCHANGED gatewayVars

\* onclose: the socket is CLOSED; the callback only logs
SocketClose(c) ==
    /\ client[c].ws \in {"connecting", "open"}
    /\ client' = [client EXCEPT ![c].ws = "closed"]
    /\ last' = NoStep
    /\ UNCHANGED <<variant, pool, wire, relayed, room, inbox, ledgerLog>>
    /\ UNCHANGED ledgerVars
    /\ UNCHANGED gatewayVars

\* onerror: the callback only logs
SocketError(c) ==
    /\ client[c].ws \in {"connecting", "open"}
    /\ last' = NoStep
    /\ UNCHANGED <<variant, client, pool, wire, relayed, room, inbox, ledgerLog>>
    /\ UNCHANGED ledgerVars
    /\ UNCHANGED gatewayVars

\* the frame join_callback sends
JoinFrame(id) ==
    [type |-> "join", roomId |-> "transaction-room", peerId |-> id]

\* the join timer fires 100 ms after connect: send_with_str puts the join on
\* an OPEN socket; on any other socket nothing is sent and the failure is
\* dropped (let _ =)
JoinTimer(c) ==
    /\ client[c].join_timer = "pending"
    /\ client' = [client EXCEPT ![c].join_timer = "fired"]
    /\ wire' = IF client[c].ws = "open"
               THEN [wire EXCEPT ![c] = Append(@, JoinFrame(client[c].endpoint_id))]
               ELSE wire
    /\ last' = NoStep
    /\ UNCHANGED <<variant, pool, relayed, room, inbox, ledgerLog>>
    /\ UNCHANGED ledgerVars
    /\ UNCHANGED gatewayVars

\* the x button of the error display
DismissError(c) ==
    /\ client[c].error_message # ""
    /\ client' = [client EXCEPT ![c].error_message = ""]
    /\ last' = NoStep
    /\ UNCHANGED <<variant, pool, wire, relayed, room, inbox, ledgerLog>>
    /\ UNCHANGED ledgerVars
    /\ UNCHANGED gatewayVars

\* the ids of process_transaction calls that changed c's ledger, after a step
\* that took c's endpoint from before to after while handling tx
Logged(c, before, after, tx) ==
    IF after # before /\ IsSome(tx)
    THEN [ledgerLog EXCEPT ![c] = Append(@, Unwrap(tx).id)]
    ELSE ledgerLog

\* the select offers "" and the connected peers
SelectOptions(c) ==
    {""} \cup {client[c].connected_peers[i] : i \in 1..Len(client[c].connected_peers)}

\* click on Send Transaction / Send Direct P2P
ClickSendStep(c, to_peer, amount_str) ==
    /\ client[c].mounted
    /\ Len(pool) < MaxTx
    /\ to_peer \in SelectOptions(c)
    /\ LET r == ClickSend(variant, client[c], Len(pool) + 1, to_peer, amount_str)
       IN /\ client' = [client EXCEPT ![c] = r.cl]
          /\ pool' = IF IsSome(r.tx) THEN Append(pool, Unwrap(r.tx)) ELSE pool
          /\ wire' = [wire EXCEPT ![c] = @ \o r.frames]
          /\ ledgerLog' = Logged(c, client[c].tx_endpoint, r.cl.tx_endpoint, r.tx)
          /\ last' = IF IsSome(r.tx)
                     THEN Step("click_send", c, "", r.tx, r.result,
                               client[c].tx_endpoint)
                     ELSE NoStep
    /\ UNCHANGED <<variant, relayed, room, inbox>>
    /\ UNCHANGED ledgerVars
    /\ UNCHANGED gatewayVars

\* click on Send Test $10 / Test $25 P2P
ClickTestStep(c) ==
    /\ client[c].mounted
    /\ Len(pool) < MaxTx
    /\ LET r == ClickTest(variant, client[c], Len(pool) + 1)
       IN /\ client' = [client EXCEPT ![c] = r.cl]
          /\ pool' = IF IsSome(r.tx) THEN Append(pool, Unwrap(r.tx)) ELSE pool
          /\ wire' = [wire EXCEPT ![c] = @ \o r.frames]
          /\ ledgerLog' = Logged(c, client[c].tx_endpoint, r.cl.tx_endpoint, r.tx)
          /\ last' = IF IsSome(r.tx)
                     THEN Step("click_test", c, "", r.tx, r.result,
                               client[c].tx_endpoint)
                     ELSE NoStep
    /\ UNCHANGED <<variant, relayed, room, inbox>>
    /\ UNCHANGED ledgerVars
    /\ UNCHANGED gatewayVars

\* onmessage with a frame that decodes to msg: the handler runs
Handle(c, msg) ==
    \E seen_empty \in SeenEmpty(variant, client[c], msg) :
       LET cl == HandleSignalingMessage(variant, client[c], msg, seen_empty)
       IN /\ client' = [client EXCEPT ![c] = cl]
          /\ ledgerLog' = Logged(c, client[c].tx_endpoint, cl.tx_endpoint,
                                 msg.transaction)
          /\ last' = IF IsSome(msg.transaction)
                     THEN Step("message", c, msg.message_type, msg.transaction,
                               "none", client[c].tx_endpoint)
                     ELSE NoStep

\* ------------------------------------- Spec: one client, any environment
\* the peers snapshots a room-joined may carry: empty, one peer, the peer
\* twice, both members
PeerLists == {<<>>, <<"B">>, <<"B", "B">>, <<"A", "B">>}

OptPeer == {None} \cup {Some(p) : p \in PeerIds}

\* messages that carry no transaction, of the types of either client and of
\* type "offer", which neither handler knows
ControlMessages ==
    {Msg(t, None, None, None) : t \in {"welcome", "error", "offer"}}
    \cup {Msg("room-joined", None, None, o) :
            o \in {None} \cup {Some(l) : l \in PeerLists}}
    \cup {Msg(t, o, None, None) :
            t \in {"peer-joined", "peer-left", "webrtc-connected",
                   "webrtc-disconnected"},
            o \in OptPeer}
    \cup {Msg(t, None, None, None) : t \in {"transaction-broadcast", "transaction-p2p"}}

\* the type under which the client's transport delivers a transaction
TransactionType(v) == IF v = "ws" THEN "transaction-broadcast" ELSE "transaction-p2p"

\* transactions another peer may have created
ForeignTxs(c, id) ==
    {[id |-> id, from |-> f, to |-> c, amount |-> 150,
      signature |-> <<"sig_", 0>>, status |-> "pending"] :
        f \in PeerIds \ {c}}

\* what the amount input may hold: nothing, text that is no number, and
\* numbers below, within and above the balance
AmountInputs == {<<"empty">>, <<"bad">>, <<"num", 0>>, <<"num", 995>>, <<"num", 1200>>}

\* a message without a transaction arrives
ReceiveControl(c, msg) ==
    /\ client[c].ws = "open"
    /\ Handle(c, msg)
    /\ UNCHANGED <<variant, pool, wire, relayed, room, inbox>>
    /\ UNCHANGED ledgerVars
    /\ UNCHANGED gatewayVars

\* a transaction that exists arrives: the echo of the client's own send, a
\* peer's transaction, or either of them once more
ReceiveTransaction(c, type, i) ==
    /\ client[c].ws = "open"
    /\ Handle(c, Msg(type, None, Some(pool[i]), None))
    /\ UNCHANGED <<variant, pool, wire, relayed, room, inbox>>
    /\ UNCHANGED ledgerVars
    /\ UNCHANGED gatewayVars

\* a transaction a peer has just created arrives
ReceiveForeign(c, type, tx) ==
    /\ client[c].ws = "open"
    /\ Len(pool) < MaxTx
    /\ pool' = Append(pool, tx)
    /\ Handle(c, Msg(type, None, Some(tx), None))
    /\ UNCHANGED <<variant, wire, relayed, room, inbox>>
    /\ UNCHANGED ledgerVars
    /\ UNCHANGED gatewayVars

Init == LedgerStart /\ GatewayStart /\ \E v \in Variants : ClientsStart(v)

Next ==
    \/ \E ok \in BOOLEAN : Mount("A", ok)
    \/ SocketOpen("A")
    \/ SocketClose("A")
    \/ SocketError("A")
    \/ JoinTimer("A")
    \/ DismissError("A")
    \/ \E to_peer \in PeerIds \cup {""}, amount_str \in AmountInputs :
          ClickSendStep("A", to_peer, amount_str)
    \/ ClickTestStep("A")
    \/ \E msg \in ControlMessages : ReceiveControl("A", msg)
    \/ \E i \in 1..Len(pool) : ReceiveTransaction("A", TransactionType(variant), i)
    \/ \E tx \in ForeignTxs("A", Len(pool) + 1) :
          ReceiveForeign("A", TransactionType(variant), tx)

Spec == Init /\ [][Next]_vars

\* ------------------------- NetSpec: two clients and the signaling room
\* The relay (ws) and the negotiated peer channels (v2) are not among the
\* sources; they follow the contract of the Signaling Room Protocol: a join
\* is answered with room-joined{peers} and announced to the members with
\* peer-joined (followed, for v2, by webrtc-connected on both sides once the
\* channel stands), and a transaction sent by a member is delivered to every
\* other member, to the sender too when the relay echoes.
RECURSIVE RoomSnapshot(_)
RoomSnapshot(S) ==
    IF S = {} THEN <<>>
    ELSE LET x == CHOOSE y \in S : TRUE IN <<x>> \o RoomSnapshot(S \ {x})

\* what the room sends endpoint d when endpoint c's join is taken
JoinNotices(v, c, d) ==
    IF d = c
    THEN <<Msg("room-joined", None, None, Some(RoomSnapshot(room \ {c})))>>
         \o (IF v = "v2"
             THEN [i \in 1..Len(RoomSnapshot(room \ {c})) |->
                     Msg("webrtc-connected", Some(RoomSnapshot(room \ {c})[i]),
                         None, None)]
             ELSE <<>>)
    ELSE IF d \in room
    THEN <<Msg("peer-joined", Some(c), None, None)>>
         \o (IF v = "v2" THEN <<Msg("webrtc-connected", Some(c), None, None)>>
             ELSE <<>>)
    ELSE <<>>

\* what the room sends endpoint d when c's transaction frame f is taken
TransactionNotices(v, c, d, f, echo) ==
    IF c \in room /\ d \in room /\ (d # c \/ (echo /\ v = "ws"))
    THEN <<Msg(TransactionType(v), None, f.transaction, None)>>
    ELSE <<>>

\* the room takes the next frame endpoint c has sent
RelayTake(c, echo) ==
    /\ relayed[c] < Len(wire[c])
    /\ LET f == wire[c][relayed[c] + 1]
       IN IF "type" \in DOMAIN f
          THEN /\ room' = room \cup {c}
               /\ inbox' = [d \in Clients |-> inbox[d] \o JoinNotices(variant, c, d)]
          ELSE /\ room' = room
               /\ inbox' = [d \in Clients |->
                              inbox[d] \o TransactionNotices(variant, c, d, f, echo)]
    /\ relayed' = [relayed EXCEPT ![c] = @ + 1]
    /\ last' = NoStep
    /\ UNCHANGED <<variant, client, pool, wire, ledgerLog>>
    /\ UNCHANGED ledgerVars
    /\ UNCHANGED gatewayVars

\* onmessage with the next frame the room has sent endpoint c
Deliver(c) ==
    /\ client[c].ws = "open"
    /\ inbox[c] # <<>>
    /\ Handle(c, Head(inbox[c]))
    /\ inbox' = [inbox EXCEPT ![c] = Tail(@)]
    /\ UNCHANGED <<variant, pool, wire, relayed, room>>
    /\ UNCHANGED ledgerVars
    /\ UNCHANGED gatewayVars

\* the amounts typed in the closed room
NetAmountInputs == {<<"num", 150>>}

NetNext ==
    \E c \in Clients :
        \/ \E ok \in BOOLEAN : Mount(c, ok)
        \/ SocketOpen(c)
        \/ JoinTimer(c)
        \/ \E to_peer \in PeerIds, amount_str \in NetAmountInputs :
              ClickSendStep(c, to_peer, amount_str)
        \/ ClickTestStep(c)
        \/ \E echo \in BOOLEAN : RelayTake(c, echo)
        \/ Deliver(c)

NetSpec == Init /\ [][NetNext]_vars

\* ------------------- MsgSpec: one client and the frames its socket hands it
\* A frame as the MessageEvent carries it: binary data, or text; json is the
\* JSON object the text parses to (None when the text is no JSON object). A
\* JSON object is a record of the members present, each null (None) or a
\* value (Some).
TextFrame(json) == [kind |-> "text", json |-> json]

\* serde_json::to_string of a SignalingMessage: every field is written, an
\* Option that is None as null
Encode(msg) ==
    TextFrame(Some([message_type |-> Some(msg.message_type),
                    room_id |-> None,
                    peer_id |-> msg.peer_id,
                    target_peer |-> None,
                    transaction |-> msg.transaction,
                    peers |-> msg.peers]))

\* a member of a JSON object read into an Option field: absent and null are
\* both None
Field(obj, f) == IF f \in DOMAIN obj THEN obj[f] ELSE None

\* e.data().dyn_into::<JsString>() followed by
\* serde_json::from_str::<SignalingMessage>: Some(msg), or None when the data
\* is no text, the text no JSON object, or message_type is missing or null
Decode(frame) ==
    IF frame.kind # "text" \/ ~IsSome(frame.json) THEN None
    ELSE LET obj == Unwrap(frame.json)
         IN IF "message_type" \notin DOMAIN obj THEN None
            ELSE IF ~IsSome(obj.message_type) THEN None
            ELSE Some(Msg(Unwrap(obj.message_type), Field(obj, "peer_id"),
                          Field(obj, "transaction"), Field(obj, "peers")))

\* frames that are no signaling envelope: binary data, text that is no JSON
\* object, an object keyed like the join the client itself sends, an object
\* whose message_type is null
MalformedFrames ==
    {[kind |-> "binary", json |-> None],
     TextFrame(None),
     TextFrame(Some([type |-> Some("peer-joined"), peerId |-> Some("B")])),
     TextFrame(Some([message_type |-> None, peer_id |-> Some("B")]))}

\* an envelope that leaves the optional members out altogether
BareFrames ==
    {TextFrame(Some([message_type |-> Some(t)])) : t \in {"welcome", "peer-left"}}

\* the frames the socket may hand the client
Frames(c, v) ==
    {Encode(m) : m \in ControlMessages}
    \cup {Encode(Msg(TransactionType(v), None, Some(tx), None)) : tx \in ForeignTxs(c, 1)}
    \cup BareFrames
    \cup MalformedFrames

\* the record of an onmessage run: the frame, what it decoded to, whether the
\* handler ran, the client before, and whether an undecodable frame came
\* earlier in this run of frames
FrameStep(c, frame, msg, handled, before) ==
    [op |-> "frame", c |-> c, frame |-> frame, msg |-> msg, handled |-> handled,
     before |-> before,
     after_bad |-> last.op = "frame" /\ (~last.handled \/ last.after_bad)]

\* onmessage that gives up the socket when a frame does not decode
OnMessageClosing(c, frame) ==
    /\ client[c].ws = "open"
    /\ LET d == Decode(frame)
       IN IF IsSome(d)
          THEN \E seen_empty \in SeenEmpty(variant, client[c], Unwrap(d)) :
                 LET cl == HandleSignalingMessage(variant, client[c], Unwrap(d),
                                                  seen_empty)
                 IN /\ client' = [client EXCEPT ![c] = cl]
                    /\ ledgerLog' = Logged(c, client[c].tx_endpoint, cl.tx_endpoint,
                                           Unwrap(d).transaction)
                    /\ last' = FrameStep(c, frame, d, TRUE, client[c])
          ELSE /\ client' = [client EXCEPT ![c].ws = "closed"]
               /\ ledgerLog' = ledgerLog
               /\ last' = FrameStep(c, frame, None, FALSE, client[c])
    /\ UNCHANGED <<variant, pool, wire, relayed, room, inbox>>
    /\ UNCHANGED ledgerVars
    /\ UNCHANGED gatewayVars

\* onmessage_callback: text that decodes goes to the handler; anything else
\* is logged (text) or passed over (binary)
OnMessage(c, frame) ==
    /\ client[c].ws = "open"
    /\ LET d == Decode(frame)
       IN IF IsSome(d)
          THEN \E seen_empty \in SeenEmpty(variant, client[c], Unwrap(d)) :
                 LET cl == HandleSignalingMessage(variant, client[c], Unwrap(d),
                                                  seen_empty)
                 IN /\ client' = [client EXCEPT ![c] = cl]
                    /\ ledgerLog' = Logged(c, client[c].tx_endpoint, cl.tx_endpoint,
                                           Unwrap(d).transaction)
                    /\ last' = FrameStep(c, frame, d, TRUE, client[c])
          ELSE /\ UNCHANGED <<client, ledgerLog>>
               /\ last' = FrameStep(c, frame, None, FALSE, client[c])
    /\ UNCHANGED <<variant, pool, wire, relayed, room, inbox>>
    /\ UNCHANGED ledgerVars
    /\ UNCHANGED gatewayVars

MsgNext ==
    \/ \E ok \in BOOLEAN : Mount("A", ok)
    \/ SocketOpen("A")
    \/ SocketClose("A")
    \/ ClickTestStep("A")
    \/ \E frame \in Frames("A", variant) : OnMessage("A", frame)

MsgSpec == Init /\ [][MsgNext]_vars

\* ------- SendSpec: the Send Transaction handler on any values of its form
\* The onclick closure reads the peer from the select and the amount from the
\* input and asks nothing else about them; here it is run on every peer id,
\* whether the rendered select offers it or not.
ClickSendForm(c, to_peer, amount_str) ==
    /\ client[c].mounted
    /\ Len(pool) < MaxTx
    /\ LET r == ClickSend(variant, client[c], Len(pool) + 1, to_peer, amount_str)
       IN /\ client' = [client EXCEPT ![c] = r.cl]
          /\ pool' = IF IsSome(r.tx) THEN Append(pool, Unwrap(r.tx)) ELSE pool
          /\ wire' = [wire EXCEPT ![c] = @ \o r.frames]
          /\ ledgerLog' = Logged(c, client[c].tx_endpoint, r.cl.tx_endpoint, r.tx)
          /\ last' = IF IsSome(r.tx)
                     THEN Step("click_send", c, "", r.tx, r.result,
                               client[c].tx_endpoint)
                     ELSE NoStep
    /\ UNCHANGED <<variant, relayed, room, inbox>>
    /\ UNCHANGED ledgerVars
    /\ UNCHANGED gatewayVars

\* what the amount input holds under SendSpec
FormAmounts == {<<"bad">>, <<"num", 150>>, <<"num", 995>>, <<"num", 1200>>}

SendNext ==
    \/ \E ok \in BOOLEAN : Mount("A", ok)
    \/ SocketOpen("A")
    \/ SocketClose("A")
    \/ DismissError("A")
    \/ \E to_peer \in PeerIds \cup {""}, amount_str \in FormAmounts :
          ClickSendForm("A", to_peer, amount_str)

SendSpec == Init /\ [][SendNext]_vars

\* ----- StatusSpec: one client under the frames and the events of its socket
StatusNext ==
    \/ \E ok \in BOOLEAN : Mount("A", ok)
    \/ SocketOpen("A")
    \/ SocketClose("A")
    \/ SocketError("A")
    \/ \E frame \in Frames("A", variant) : OnMessage("A", frame)

StatusSpec == Init /\ [][StatusNext]_vars

\* --------- PairSpec: two clients that are told of the same membership
\* changes, one in the order e1 e2 and the other in the order e2 e1
\* peer-joined / peer-left for a peer id
MembershipEvents ==
    {Msg(t, Some(p), None, None) : t \in {"peer-joined", "peer-left"}, p \in PeerIds}

\* the room sends every client the same message (a room-joined snapshot or a
\* membership change)
Announce(msg) ==
    /\ \A c \in Clients : inbox[c] = <<>>
    /\ inbox' = [c \in Clients |-> <<msg>>]
    /\ last' = NoStep
    /\ UNCHANGED <<variant, client, pool, wire, relayed, room, ledgerLog>>
    /\ UNCHANGED ledgerVars
    /\ UNCHANGED gatewayVars

\* the room sends two membership changes, to A as e1 e2 and to B as e2 e1;
\* last keeps the pair and the peers each client tracked when it was sent
AnnouncePair(e1, e2) ==
    /\ \A c \in Clients : inbox[c] = <<>>
    /\ inbox' = [c \in Clients |-> IF c = "A" THEN <<e1, e2>> ELSE <<e2, e1>>]
    /\ last' = [op |-> "pair", e1 |-> e1, e2 |-> e2,
                before |-> [c \in Clients |-> client[c].connected_peers]]
    /\ UNCHANGED <<variant, client, pool, wire, relayed, room, ledgerLog>>
    /\ UNCHANGED ledgerVars
    /\ UNCHANGED gatewayVars

\* onmessage with the next message the room has sent endpoint c; last stays
\* the record of the announcement
DeliverAnnounced(c) ==
    /\ client[c].ws = "open"
    /\ inbox[c] # <<>>
    /\ \E seen_empty \in SeenEmpty(variant, client[c], Head(inbox[c])) :
          client' = [client EXCEPT ![c] =
                       HandleSignalingMessage(variant, @, Head(inbox[c]), seen_empty)]
    /\ inbox' = [inbox EXCEPT ![c] = Tail(@)]
    /\ UNCHANGED <<variant, pool, wire, relayed, room, ledgerLog, last>>
    /\ UNCHANGED ledgerVars
    /\ UNCHANGED gatewayVars

PairNext ==
    \/ \E c \in Clients, ok \in BOOLEAN : Mount(c, ok)
    \/ \E c \in Clients : SocketOpen(c)
    \/ \E l \in PeerLists : Announce(Msg("room-joined", None, None, Some(l)))
    \/ \E e1 \in MembershipEvents, e2 \in MembershipEvents : AnnouncePair(e1, e2)
    \/ \E c \in Clients : DeliverAnnounced(c)

PairSpec == Init /\ [][PairNext]_vars

\* ---------------------------- GatewaySpec: the transaction log service
\* Transaction ids as the requests spell them. Uuid::parse_str takes the
\* hyphenated lower-case text and other spellings of the same value (upper
\* case, no hyphens): "u1" and "U1" spell uuid 1, "u2" spells uuid 2, the
\* rest is no uuid.
IdTexts == {"u1", "U1", "u2", "not-a-uuid", ""}

\* Uuid::parse_str
ParseUuid(text) ==
    IF text \in {"u1", "U1"} THEN Some(1)
    ELSE IF text = "u2" THEN Some(2)
    ELSE None

\* Uuid::to_string: the hyphenated lower-case text
UuidToString(u) == IF u = 1 THEN "u1" ELSE "u2"

\* who pays whom how much in the requests: A to B, B to A, A to itself
Transfers == {<<"A", "B", 100>>, <<"B", "A", 40>>, <<"A", "A", 40>>}

\* the Transaction bodies of POST /api/transactions
Requests ==
    {[id |-> i, from_endpoint |-> t[1], to_endpoint |-> t[2], amount |-> t[3],
      timestamp |-> 1, signature |-> "sig", status |-> "pending"] :
        i \in IdTexts, t \in Transfers}

\* the row the INSERT of create_transaction binds
Row(tx_id, transaction) ==
    [id |-> tx_id,
     from_endpoint |-> transaction.from_endpoint,
     to_endpoint |-> transaction.to_endpoint,
     amount |-> transaction.amount,
     timestamp |-> transaction.timestamp,
     signature |-> transaction.signature,
     status |-> transaction.status]

\* an INSERT into a table without a key: the row is added next to the others
InsertRowKeyless(rows, row) == rows \cup {row}

\* INSERT ... IF NOT EXISTS: a row whose id is in the table is left alone
InsertRowIfNotExists(rows, row) ==
    IF \E r \in rows : r.id = row.id THEN rows ELSE rows \cup {row}

\* INSERT into tx_log, whose PRIMARY KEY is id: a row with the same id is
\* replaced
InsertRow(rows, row) == {r \in rows : r.id # row.id} \cup {row}

\* SUM(amount) over rows
RECURSIVE SumAmount(_)
SumAmount(rows) ==
    IF rows = {} THEN 0
    ELSE LET r == CHOOSE x \in rows : TRUE
         IN r.amount + SumAmount(rows \ {r})

\* a handler's response
Response(op, status, body, request, before) ==
    [op |-> op, status |-> status, body |-> body, request |-> request,
     before |-> before, up |-> store_up]

\* create_transaction that sends the INSERT first and looks at the id after
CreateTransactionHandlerWritingFirst(transaction) ==
    /\ served < MaxRequests
    /\ served' = served + 1
    /\ LET tx_id == ParseUuid(transaction.id)
       IN IF ~store_up
          THEN /\ resp' = Response("create", 500, None, transaction, tx_log)
               /\ UNCHANGED <<tx_log, appended, history>>
          ELSE IF ~IsSome(tx_id)
          THEN /\ resp' = Response("create", 400, None, transaction, tx_log)
               /\ tx_log' = InsertRow(tx_log, Row(0, transaction))
               /\ UNCHANGED <<appended, history>>
          ELSE /\ tx_log' = InsertRow(tx_log, Row(Unwrap(tx_id), transaction))
               /\ appended' = appended \cup {transaction.id}
               /\ history' = Append(history, transaction)
               /\ resp' = Response("create", 201, None, transaction, tx_log)
    /\ UNCHANGED <<store_up, pending>>
    /\ UNCHANGED ledgerVars
    /\ UNCHANGED clientVars

\* create_transaction (POST /api/transactions): 400 when the id is no uuid,
\* 500 when the INSERT fails, 201 once the row is written
CreateTransactionHandler(transaction) ==
    /\ served < MaxRequests
    /\ served' = served + 1
    /\ LET tx_id == ParseUuid(transaction.id)
       IN IF ~IsSome(tx_id)
          THEN /\ resp' = Response("create", 400, None, transaction, tx_log)
               /\ UNCHANGED <<tx_log, appended, history>>
          ELSE IF ~store_up
          THEN /\ resp' = Response("create", 500, None, transaction, tx_log)
               /\ UNCHANGED <<tx_log, appended, history>>
          ELSE /\ tx_log' = InsertRow(tx_log, Row(Unwrap(tx_id), transaction))
               /\ appended' = appended \cup {transaction.id}
               /\ history' = Append(history, transaction)
               /\ resp' = Response("create", 201, None, transaction, tx_log)
    /\ UNCHANGED <<store_up, pending>>
    /\ UNCHANGED ledgerVars
    /\ UNCHANGED clientVars

\* the store becomes unreachable, or reachable again
StoreChange ==
    /\ store_up' = ~store_up
    /\ UNCHANGED <<tx_log, appended, history, pending, resp, served>>
    /\ UNCHANGED ledgerVars
    /\ UNCHANGED clientVars

\* the SUM(amount) column of the totals row: null over no rows
SumAggregate(rows) == IF rows = {} THEN None ELSE Some(SumAmount(rows))

\* total_volume / total_transactions as f64: the exact quotient, kept as a
\* fraction
Quotient(num, den) == [num |-> num, den |-> den]

\* average_transaction with the test for an empty log off by one
AverageTransactionOverOne(total_volume, total_transactions) ==
    IF total_transactions > 1
    THEN Quotient(total_volume, total_transactions)
    ELSE Quotient(0, 1)

\* average_transaction: 0.0 for an empty log
AverageTransaction(total_volume, total_transactions) ==
    IF total_transactions > 0
    THEN Quotient(total_volume, total_transactions)
    ELSE Quotient(0, 1)

\* the EndpointStats that or_insert puts in for a new endpoint
EndpointStatsNew(e) ==
    [endpoint_id |-> e, transaction_count |-> 0, total_sent |-> 0,
     total_received |-> 0, balance_change |-> 0]

\* endpoint_map.entry(e).or_insert(..)
OrInsert(map, e) ==
    IF e \in DOMAIN map THEN map
    ELSE [x \in (DOMAIN map) \cup {e} |-> IF x = e THEN EndpointStatsNew(e) ELSE map[x]]

\* the loop of get_stats with the receiver's entry counted like the sender's
RECURSIVE FoldEndpointsCountingBoth(_, _)
FoldEndpointsCountingBoth(rows, map) ==
    IF rows = {} THEN map
    ELSE LET r == CHOOSE x \in rows : TRUE
             m1 == [OrInsert(map, r.from_endpoint) EXCEPT
                      ![r.from_endpoint].transaction_count = @ + 1,
                      ![r.from_endpoint].total_sent = @ + r.amount,
                      ![r.from_endpoint].balance_change = @ - r.amount]
             m2 == [OrInsert(m1, r.to_endpoint) EXCEPT
                      ![r.to_endpoint].transaction_count = @ + 1,
                      ![r.to_endpoint].total_received = @ + r.amount,
                      ![r.to_endpoint].balance_change = @ + r.amount]
         IN FoldEndpointsCountingBoth(rows \ {r}, m2)

\* the loop of get_stats leaving the balance change of a received amount out
RECURSIVE FoldEndpointsDebitOnly(_, _)
FoldEndpointsDebitOnly(rows, map) ==
    IF rows = {} THEN map
    ELSE LET r == CHOOSE x \in rows : TRUE
             m1 == [OrInsert(map, r.from_endpoint) EXCEPT
                      ![r.from_endpoint].transaction_count = @ + 1,
                      ![r.from_endpoint].total_sent = @ + r.amount,
                      ![r.from_endpoint].balance_change = @ - r.amount]
             m2 == [OrInsert(m1, r.to_endpoint) EXCEPT
                      ![r.to_endpoint].total_received = @ + r.amount]
         IN FoldEndpointsDebitOnly(rows \ {r}, m2)

\* the loop of get_stats over the rows of its second query: the sender's
\* entry, then the receiver's
RECURSIVE FoldEndpoints(_, _)
FoldEndpoints(rows, map) ==
    IF rows = {} THEN map
    ELSE LET r == CHOOSE x \in rows : TRUE
             m1 == [OrInsert(map, r.from_endpoint) EXCEPT
                      ![r.from_endpoint].transaction_count = @ + 1,
                      ![r.from_endpoint].total_sent = @ + r.amount,
                      ![r.from_endpoint].balance_change = @ - r.amount]
             m2 == [OrInsert(m1, r.to_endpoint) EXCEPT
                      ![r.to_endpoint].total_received = @ + r.amount,
                      ![r.to_endpoint].balance_change = @ + r.amount]
         IN FoldEndpoints(rows \ {r}, m2)

\* get_stats (GET /api/stats) up to the answer of its first query, SELECT
\* COUNT(*), SUM(amount): the totals and the average
GetStatsTotals ==
    /\ served < MaxRequests
    /\ served' = served + 1
    /\ pending = <<>>
    /\ IF ~store_up
       THEN /\ resp' = Response("stats", 500, None, None, tx_log)
            /\ UNCHANGED pending
       ELSE LET count == Cardinality(tx_log)
                sum == SumAggregate(tx_log)
                total_volume == IF IsSome(sum) THEN Unwrap(sum) ELSE 0
            IN /\ pending' = <<[total_transactions |-> count,
                                total_volume |-> total_volume,
                                average_transaction |->
                                    AverageTransaction(total_volume, count),
                                log |-> tx_log]>>
               /\ UNCHANGED resp
    /\ UNCHANGED <<tx_log, store_up, appended, history>>
    /\ UNCHANGED ledgerVars
    /\ UNCHANGED clientVars

\* get_stats from its second query, SELECT from_endpoint, to_endpoint,
\* amount, to the response. The response record keeps, as request, the rows
\* this query read and, as before, the rows the first query read.
GetStatsEndpoints ==
    /\ pending # <<>>
    /\ pending' = <<>>
    /\ IF ~store_up
       THEN resp' = Response("stats", 500, None, None, pending[1].log)
       ELSE resp' = Response("stats", 200,
                             Some([total_transactions |-> pending[1].total_transactions,
                                   total_volume |-> pending[1].total_volume,
                                   average_transaction |-> pending[1].average_transaction,
                                   endpoints |-> FoldEndpoints(tx_log, <<>>)]),
                             Some(tx_log), pending[1].log)
    /\ UNCHANGED <<tx_log, store_up, appended, history, served>>
    /\ UNCHANGED ledgerVars
    /\ UNCHANGED clientVars

GatewayNext ==
    \/ StoreChange
    \/ \E transaction \in Requests : CreateTransactionHandler(transaction)
    \/ GetStatsTotals
    \/ GetStatsEndpoints

GatewayInit == LedgerStart /\ GatewayStart /\ ClientsStart("ws")

GatewaySpec == GatewayInit /\ [][GatewayNext]_vars

\* ------------------ LookupSpec: the gateway's get_by_id and list handlers
\* the Transaction a handler builds from a row: the id is written back as
\* text
FromRow(row) ==
    [id |-> UuidToString(row.id),
     from_endpoint |-> row.from_endpoint,
     to_endpoint |-> row.to_endpoint,
     amount |-> row.amount,
     timestamp |-> row.timestamp,
     signature |-> row.signature,
     status |-> row.status]

\* get_transaction_by_id that asks the store before it looks at the id
GetTransactionByIdUnparsed(id) ==
    /\ served < MaxRequests
    /\ served' = served + 1
    /\ LET tx_id == ParseUuid(id)
       IN IF ~store_up
          THEN resp' = Response("get", 500, None, id, tx_log)
          ELSE IF ~IsSome(tx_id)
          THEN resp' = Response("get", 404, None, id, tx_log)
          ELSE IF \E r \in tx_log : r.id = Unwrap(tx_id)
          THEN resp' = Response("get", 200,
                                Some(FromRow(CHOOSE r \in tx_log : r.id = Unwrap(tx_id))),
                                id, tx_log)
          ELSE resp' = Response("get", 404, None, id, tx_log)
    /\ UNCHANGED <<tx_log, store_up, appended, history, pending>>
    /\ UNCHANGED ledgerVars
    /\ UNCHANGED clientVars

\* get_transaction_by_id (GET /api/transactions/:id): 400 when the id is no
\* uuid, 500 when the query fails, the row's Transaction when there is one,
\* else 404
GetTransactionById(id) ==
    /\ served < MaxRequests
    /\ served' = served + 1
    /\ LET tx_id == ParseUuid(id)
       IN IF ~IsSome(tx_id)
          THEN resp' = Response("get", 400, None, id, tx_log)
          ELSE IF ~store_up
          THEN resp' = Response("get", 500, None, id, tx_log)
          ELSE IF \E r \in tx_log : r.id = Unwrap(tx_id)
          THEN resp' = Response("get", 200,
                                Some(FromRow(CHOOSE r \in tx_log : r.id = Unwrap(tx_id))),
                                id, tx_log)
          ELSE resp' = Response("get", 404, None, id, tx_log)
    /\ UNCHANGED <<tx_log, store_up, appended, history, pending>>
    /\ UNCHANGED ledgerVars
    /\ UNCHANGED clientVars

\* what the limit parameter may hold; l.parse::<i32>() gives a number for
\* the last four
LimitTexts == {"abc", "2.5", "-1", "0", "1", "2"}

ParseI32(text) ==
    IF text = "-1" THEN Some(0 - 1)
    ELSE IF text = "0" THEN Some(0)
    ELSE IF text = "1" THEN Some(1)
    ELSE IF text = "2" THEN Some(2)
    ELSE None

\* params.get("limit").and_then(|l| l.parse::<i32>().ok()).unwrap_or(100)
LimitOf(param) ==
    IF IsSome(param) /\ IsSome(ParseI32(Unwrap(param)))
    THEN Unwrap(ParseI32(Unwrap(param)))
    ELSE DefaultLimit

\* the rows the SELECT of get_transactions matches
Matching(rows, endpoint) ==
    IF IsSome(endpoint)
    THEN {r \in rows : r.from_endpoint = Unwrap(endpoint)
                          \/ r.to_endpoint = Unwrap(endpoint)}
    ELSE rows

\* the orders in which the store may hand back a set of rows (the table is
\* keyed by id alone: the order is the store's own)
StoreOrders(rows) ==
    {o \in [1..Cardinality(rows) -> rows] :
        \A i, j \in 1..Cardinality(rows) : i # j => o[i] # o[j]}

\* a SELECT whose LIMIT is left out
Unlimited(seq, n) == seq

\* LIMIT n of a SELECT
Limited(seq, n) == SubSeq(seq, 1, IF n < Len(seq) THEN n ELSE Len(seq))

\* x put into a sequence sorted by timestamp descending, behind every
\* element that does not come after it
RECURSIVE InsertByTimestamp(_, _)
InsertByTimestamp(sorted, x) ==
    IF sorted = <<>> THEN <<x>>
    ELSE IF Head(sorted).timestamp >= x.timestamp
    THEN <<Head(sorted)>> \o InsertByTimestamp(Tail(sorted), x)
    ELSE <<x>> \o sorted

\* sort_by with the comparison the other way round: oldest first
RECURSIVE SortByTimestampAsc(_)
SortByTimestampAsc(seq) ==
    IF Len(seq) <= 1 THEN seq
    ELSE LET rest == SortByTimestampAsc(Tail(seq))
             older == SelectSeq(rest, LAMBDA t : t.timestamp < Head(seq).timestamp)
             newer == SelectSeq(rest, LAMBDA t : t.timestamp >= Head(seq).timestamp)
         IN older \o <<Head(seq)>> \o newer

\* transactions.sort_by(|a, b| b.timestamp.cmp(&a.timestamp)): stable, equal
\* timestamps keep the order they came in
RECURSIVE SortByTimestampDesc(_)
SortByTimestampDesc(seq) ==
    IF seq = <<>> THEN <<>>
    ELSE InsertByTimestamp(SortByTimestampDesc(SubSeq(seq, 1, Len(seq) - 1)),
                           seq[Len(seq)])

\* the rows of a sequence as the Transactions the handler pushes
RECURSIVE Transactions(_)
Transactions(rows) ==
    IF rows = <<>> THEN <<>>
    ELSE <<FromRow(Head(rows))>> \o Transactions(Tail(rows))

\* get_transactions (GET /api/transactions?endpoint=&limit=): the SELECT
\* with its WHERE and LIMIT, the rows in the store's order (order), then the
\* sort by timestamp, newest first. A LIMIT that is not positive is refused
\* by the store, like any query while it is unreachable.
GetTransactions(endpoint, limit_param, order) ==
    /\ served < MaxRequests
    /\ served' = served + 1
    /\ order \in StoreOrders(Matching(tx_log, endpoint))
    /\ LET limit == LimitOf(limit_param)
           request == [endpoint |-> endpoint, limit |-> limit_param, order |-> order]
       IN IF ~store_up \/ limit <= 0
          THEN resp' = Response("list", 500, None, request, tx_log)
          ELSE resp' = Response("list", 200,
                                Some(SortByTimestampDesc(
                                        Transactions(Limited(order, limit)))),
                                request, tx_log)
    /\ UNCHANGED <<tx_log, store_up, appended, history, pending>>
    /\ UNCHANGED ledgerVars
    /\ UNCHANGED clientVars

\* the Transaction bodies posted in the runs of lookups: two spellings of
\* one uuid and another uuid, two transfers, two timestamps
LookupRequests ==
    {[id |-> i, from_endpoint |-> t[1], to_endpoint |-> t[2], amount |-> t[3],
      timestamp |-> ts, signature |-> "sig", status |-> "pending"] :
        i \in {"u1", "U1", "u2"},
        t \in {<<"A", "B", 100>>, <<"B", "C", 40>>},
        ts \in {1, 2}}

\* every order of every set of rows the lookups can meet
LookupOrders ==
    UNION {StoreOrders(Matching(tx_log, endpoint)) : endpoint \in {None, Some("B")}}

LookupNext ==
    \/ StoreChange
    \/ /\ served < MaxLookups
       /\ \/ \E transaction \in LookupRequests : CreateTransactionHandler(transaction)
          \/ \E id \in IdTexts : GetTransactionById(id)
          \/ \E endpoint \in {None, Some("B")},
                limit_param \in {None} \cup {Some(l) : l \in LimitTexts},
                order \in LookupOrders :
                  GetTransactions(endpoint, limit_param, order)

LookupSpec == GatewayInit /\ [][LookupNext]_vars


\* ------------------ StatsSpec: the gateway's two statistics handlers
\* the loop of get_endpoint_stats counting a row only for its sender
RECURSIVE FoldEndpointSenderCounted(_, _, _)
FoldEndpointSenderCounted(rows, endpoint_id, stats) ==
    IF rows = {} THEN stats
    ELSE LET r == CHOOSE x \in rows : TRUE
             s1 == IF r.from_endpoint = endpoint_id
                   THEN [stats EXCEPT !.transaction_count = @ + 1,
                                      !.total_sent = @ + r.amount,
                                      !.balance_change = @ - r.amount]
                   ELSE stats
             s2 == IF r.to_endpoint = endpoint_id
                   THEN [s1 EXCEPT !.total_received = @ + r.amount,
                                   !.balance_change = @ + r.amount]
                   ELSE s1
         IN FoldEndpointSenderCounted(rows \ {r}, endpoint_id, s2)

\* the loop of get_endpoint_stats leaving the balance change of a received
\* amount out
RECURSIVE FoldEndpointDebitOnly(_, _, _)
FoldEndpointDebitOnly(rows, endpoint_id, stats) ==
    IF rows = {} THEN stats
    ELSE LET r == CHOOSE x \in rows : TRUE
             s0 == [stats EXCEPT !.transaction_count = @ + 1]
             s1 == IF r.from_endpoint = endpoint_id
                   THEN [s0 EXCEPT !.total_sent = @ + r.amount,
                                   !.balance_change = @ - r.amount]
                   ELSE s0
             s2 == IF r.to_endpoint = endpoint_id
                   THEN [s1 EXCEPT !.total_received = @ + r.amount]
                   ELSE s1
         IN FoldEndpointDebitOnly(rows \ {r}, endpoint_id, s2)

\* the loop of get_endpoint_stats counting a row once for each side the
\* endpoint is on
RECURSIVE FoldEndpointCountingSides(_, _, _)
FoldEndpointCountingSides(rows, endpoint_id, stats) ==
    IF rows = {} THEN stats
    ELSE LET r == CHOOSE x \in rows : TRUE
             s1 == IF r.from_endpoint = endpoint_id
                   THEN [stats EXCEPT !.transaction_count = @ + 1,
                                      !.total_sent = @ + r.amount,
                                      !.balance_change = @ - r.amount]
                   ELSE stats
             s2 == IF r.to_endpoint = endpoint_id
                   THEN [s1 EXCEPT !.transaction_count = @ + 1,
                                   !.total_received = @ + r.amount,
                                   !.balance_change = @ + r.amount]
                   ELSE s1
         IN FoldEndpointCountingSides(rows \ {r}, endpoint_id, s2)

\* the loop of get_endpoint_stats over the rows of its query: every row
\* counts once, its amount is sent if the endpoint is the sender and
\* received if the endpoint is the receiver
RECURSIVE FoldEndpoint(_, _, _)
FoldEndpoint(rows, endpoint_id, stats) ==
    IF rows = {} THEN stats
    ELSE LET r == CHOOSE x \in rows : TRUE
             s0 == [stats EXCEPT !.transaction_count = @ + 1]
             s1 == IF r.from_endpoint = endpoint_id
                   THEN [s0 EXCEPT !.total_sent = @ + r.amount,
                                   !.balance_change = @ - r.amount]
                   ELSE s0
             s2 == IF r.to_endpoint = endpoint_id
                   THEN [s1 EXCEPT !.total_received = @ + r.amount,
                                   !.balance_change = @ + r.amount]
                   ELSE s1
         IN FoldEndpoint(rows \ {r}, endpoint_id, s2)

\* get_endpoint_stats (GET /api/endpoints/:id/stats): one SELECT of the rows
\* WHERE from_endpoint = ? OR to_endpoint = ?, folded into one EndpointStats
GetEndpointStats(endpoint_id) ==
    /\ served < MaxRequests
    /\ served' = served + 1
    /\ IF ~store_up
       THEN resp' = Response("endpoint_stats", 500, None, endpoint_id, tx_log)
       ELSE resp' = Response("endpoint_stats", 200,
                             Some(FoldEndpoint(Matching(tx_log, Some(endpoint_id)),
                                               endpoint_id,
                                               EndpointStatsNew(endpoint_id))),
                             endpoint_id, tx_log)
    /\ UNCHANGED <<tx_log, store_up, appended, history, pending>>
    /\ UNCHANGED ledgerVars
    /\ UNCHANGED clientVars

\* the Transaction bodies posted under StatsSpec: two ids, transfers between
\* three endpoints, one of them from an endpoint to itself
StatsRequests ==
    {[id |-> i, from_endpoint |-> t[1], to_endpoint |-> t[2], amount |-> t[3],
      timestamp |-> 1, signature |-> "sig", status |-> "pending"] :
        i \in {"u1", "u2"},
        t \in {<<"A", "B", 100>>, <<"B", "C", 40>>, <<"A", "A", 40>>}}

\* the endpoint ids asked for under StatsSpec: D appears in no transfer
StatsEndpoints == {"A", "B", "C", "D"}

StatsNext ==
    \/ StoreChange
    \/ \E transaction \in StatsRequests : CreateTransactionHandler(transaction)
    \/ GetStatsTotals
    \/ GetStatsEndpoints
    \/ \E endpoint_id \in StatsEndpoints : GetEndpointStats(endpoint_id)

StatsSpec == GatewayInit /\ [][StatsNext]_vars


\* ------------- ReappendSpec: appends of ids already in the log, read back
\* the Transaction bodies posted under ReappendSpec: three spellings of two
\* ids, with two transfers that differ in every field a transfer has
ReappendRequests ==
    {[id |-> i, from_endpoint |-> t[1], to_endpoint |-> t[2], amount |-> t[3],
      timestamp |-> t[4], signature |-> "sig", status |-> "pending"] :
        i \in {"u1", "U1", "u2"},
        t \in {<<"A", "B", 100, 1>>, <<"B", "A", 40, 2>>}}

ReappendNext ==
    \/ StoreChange
    \/ \E transaction \in ReappendRequests : CreateTransactionHandler(transaction)
    \/ \E id \in {"u1", "u2"} : GetTransactionById(id)
    \/ GetStatsTotals
    \/ GetStatsEndpoints

ReappendSpec == GatewayInit /\ [][ReappendNext]_vars

\* ------------------------------------------------ claims about the ledger
LastIsApply == ledgerLast.op = "apply"

\* C1: applying a transaction that this ledger has already applied with
\* success returns success and leaves balance and applied count as they were
\* (apply(apply(L, tx), tx) = apply(L, tx)).
C1_IdempotentApply ==
    (LastIsApply /\ ledgerLast.replay) =>
        /\ ledgerLast.result = "Ok"
        /\ ledger.balance = ledgerLast.before.balance
        /\ ledger.transaction_count = ledgerLast.before.transaction_count

\* C2: a ledger that starts at the starting balance and changes only through
\* apply of transactions with non-negative amounts never has balance < 0.
C2_NoNegativeBalance == ledger.balance >= 0

\* a debit went through and lowered the balance
C2_Witness ==
    /\ LastIsApply
    /\ ledgerLast.result = "Ok"
    /\ ledgerLast.tx.from = ledger.id
    /\ ledger.balance < ledgerLast.before.balance

\* C3: apply with tx.from = the ledger's id and amount > balance returns
\* InsufficientBalance and leaves balance and applied count unchanged.
C3_InsufficientBalanceRejected ==
    (/\ LastIsApply
     /\ ledgerLast.tx.from = ledgerLast.before.id
     /\ ledgerLast.tx.amount > ledgerLast.before.balance) =>
        /\ ledgerLast.result = "InsufficientBalance"
        /\ ledger = ledgerLast.before

\* an overdraft was attempted, on a ledger that had already been changed
C3_Witness ==
    /\ LastIsApply
    /\ ledgerLast.tx.from = ledgerLast.before.id
    /\ ledgerLast.tx.amount > ledgerLast.before.balance
    /\ ledgerLast.before.transaction_count > 0

\* C8: a successfully applied self-transfer (from = to = the ledger's id)
\* leaves the balance where it was.
C8_SelfTransferNetZero ==
    (/\ LastIsApply
     /\ ledgerLast.tx.from = ledgerLast.before.id
     /\ ledgerLast.tx.to = ledgerLast.before.id
     /\ ledgerLast.result = "Ok") =>
        ledger.balance = ledgerLast.before.balance

\* C9: applying a transaction whose from and to both differ from the
\* ledger's id changes neither balance nor applied count.
C9_IrrelevantIsNoOp ==
    (/\ LastIsApply
     /\ ledgerLast.tx.from # ledgerLast.before.id
     /\ ledgerLast.tx.to # ledgerLast.before.id) =>
        /\ ledger.balance = ledgerLast.before.balance
        /\ ledger.transaction_count = ledgerLast.before.transaction_count

\* ------------------------------------------------ claims about one client
NoRepeat(s) == \A i, j \in 1..Len(s) : i # j => s[i] # s[j]

\* the frames of c's socket that carry transaction tx
FramesWith(c, tx) ==
    {i \in 1..Len(wire[c]) :
        /\ "transaction" \in DOMAIN wire[c][i]
        /\ wire[c][i].transaction = Some(tx)}

\* C6: in any run of one client (local sends, received messages, the echo of
\* its own broadcast, redundant deliveries) no transaction id changes the
\* client's ledger more than once.
C6_NoIdChangesLedgerTwice == NoRepeat(ledgerLog["A"])

\* a transaction that has changed the client's ledger comes back in a message
C6_Witness ==
    /\ last.op = "message"
    /\ last.c = "A"
    /\ Contains(ledgerLog["A"], Unwrap(last.tx).id)
    /\ Unwrap(last.tx).from = "A"

\* C7: on the send paths (manual send, test send) a transaction that the
\* local ledger rejected with InsufficientBalance is neither put in the local
\* transaction log nor sent.
C7_RejectedNeverSent ==
    (/\ last.op \in {"click_send", "click_test"}
     /\ last.result = "InsufficientBalance") =>
        /\ Unwrap(last.tx).id \notin DOMAIN client[last.c].transactions
        /\ FramesWith(last.c, Unwrap(last.tx)) = {}

\* C10: the locally tracked peer set never holds a peer id twice, whatever
\* peers list a room-joined carries.
C10_NoDuplicatePeers == \A c \in Clients : NoRepeat(client[c].connected_peers)

\* ------------------------------------------- claims about the closed room
\* every frame sent has been relayed and every relayed frame handled
FullyDelivered ==
    \A c \in Clients : relayed[c] = Len(wire[c]) /\ inbox[c] = <<>>

\* C4: in a closed set of endpoints, once everything sent has been
\* delivered, the ledger balances sum to the sum of the starting balances.
C4_BalanceConservation ==
    FullyDelivered =>
        client["A"].tx_endpoint.balance + client["B"].tx_endpoint.balance
            = 2 * StartingBalance

\* C5: after an endpoint handles a transaction-broadcast / transaction-p2p
\* of a peer's transaction with to = itself and amount a, its balance has
\* been credited by a.
C5_BroadcastCredited ==
    (/\ last.op = "message"
     /\ last.type = TransactionType(variant)
     /\ Unwrap(last.tx).to = last.c
     /\ Unwrap(last.tx).from # last.c) =>
        client[last.c].tx_endpoint.balance
            = last.before.balance + Unwrap(last.tx).amount

\* --------------------------------- claims about the handling of messages
\* the ids a peer list holds
PeerSet(peers) == {peers[i] : i \in 1..Len(peers)}

\* the last step was the handler run on a message of one of these types
Handled(types) ==
    /\ last.op = "frame"
    /\ last.handled
    /\ Unwrap(last.msg).message_type \in types

JoinEvents == {"peer-joined", "webrtc-connected"}
LeaveEvents == {"peer-left", "webrtc-disconnected"}

\* the message types each client's handler has a branch for
KnownTypes(v) ==
    IF v = "ws"
    THEN {"welcome", "room-joined", "peer-joined", "peer-left",
          "transaction-broadcast", "error"}
    ELSE {"welcome", "room-joined", "peer-joined", "webrtc-connected",
          "webrtc-disconnected", "transaction-p2p", "error"}

\* C11: handling a join event (peer-joined / webrtc-connected) for a peer id
\* already in the peer set, or a leave event (peer-left /
\* webrtc-disconnected) for a peer id not in it, leaves the peer set as it
\* was and raises no error.
C11_PeerSetIdempotent ==
    (/\ Handled(JoinEvents \cup LeaveEvents)
     /\ IsSome(Unwrap(last.msg).peer_id)
     /\ (Unwrap(last.msg).message_type \in JoinEvents
            <=> Unwrap(Unwrap(last.msg).peer_id) \in PeerSet(last.before.connected_peers))) =>
        /\ client[last.c].connected_peers = last.before.connected_peers
        /\ client[last.c].error_message = last.before.error_message

\* the relay client has handled peer-joined for a peer it already tracked
C11_Witness ==
    /\ variant = "ws"
    /\ Handled({"peer-joined"})
    /\ IsSome(Unwrap(last.msg).peer_id)
    /\ Unwrap(Unwrap(last.msg).peer_id) \in PeerSet(last.before.connected_peers)

\* C13: in the direct-channel client, after peer-left{p} has been handled, p
\* is not in the locally tracked peer set (as in the relay client).
C13_PeerLeftRemovesV2 ==
    (/\ variant = "v2"
     /\ Handled({"peer-left"})
     /\ IsSome(Unwrap(last.msg).peer_id)) =>
        Unwrap(Unwrap(last.msg).peer_id) \notin PeerSet(client[last.c].connected_peers)

\* C14: handling an error message or a message of unknown type leaves the
\* peer set, the local transaction log, the connection status and the ledger
\* as they were.
C14_ErrorAndUnknownIgnored ==
    (/\ last.op = "frame"
     /\ last.handled
     /\ \/ Unwrap(last.msg).message_type = "error"
        \/ Unwrap(last.msg).message_type \notin KnownTypes(variant)) =>
        /\ client[last.c].connected_peers = last.before.connected_peers
        /\ client[last.c].transactions = last.before.transactions
        /\ client[last.c].connection_status = last.before.connection_status
        /\ client[last.c].tx_endpoint = last.before.tx_endpoint

\* error has been handled by a connected client that tracks a peer and has
\* sent a transaction
C14_Witness ==
    /\ Handled({"error"})
    /\ last.before.connected_peers # <<>>
    /\ last.before.connection_status = "Connected"
    /\ DOMAIN last.before.transactions # {}
    /\ client[last.c].error_message # last.before.error_message

\* C15: a frame that does not decode as a signaling envelope is discarded:
\* the handler is not run and the client, its socket included, stays as it
\* was; a frame that decodes is handed to the handler, also after an
\* undecodable one.
C15_MalformedDiscarded ==
    last.op = "frame" =>
        IF IsSome(Decode(last.frame))
        THEN last.handled /\ last.before.ws = "open"
        ELSE /\ ~last.handled
             /\ client[last.c] = last.before
             /\ client[last.c].ws = "open"

\* a message has been handled, and has changed the client, right after an
\* undecodable frame was discarded
C15_Witness ==
    /\ last.op = "frame"
    /\ last.handled
    /\ last.after_bad
    /\ client[last.c] # last.before

\* ------------------------------ claims about the order of membership changes
\* both clients started from the same peers and have handled the whole pair
PairHandled ==
    /\ last.op = "pair"
    /\ last.before["A"] = last.before["B"]
    /\ \A c \in Clients : inbox[c] = <<>>

\* a join and a leave of one and the same peer id
Opposed(e1, e2) ==
    /\ e1.peer_id = e2.peer_id
    /\ e1.message_type # e2.message_type

\* C12 as stated: for any peer set and any two membership events e1, e2
\* (peer-joined or peer-left for some peer id), handling e1 then e2 yields
\* the same set of peers as handling e2 then e1.
C12_MembershipCommutes ==
    PairHandled =>
        PeerSet(client["A"].connected_peers) = PeerSet(client["B"].connected_peers)

\* C12 for events that are not a join and a leave of the same peer id:
\* handling e1 then e2 yields the same set of peers as handling e2 then e1.
C12_MembershipCommutesUnopposed ==
    (PairHandled /\ ~Opposed(last.e1, last.e2)) =>
        PeerSet(client["A"].connected_peers) = PeerSet(client["B"].connected_peers)

\* the relay clients have handled a join of one peer and a leave of another
\* in the two orders, and the pair has changed the peers they track
C12_Witness ==
    /\ variant = "ws"
    /\ PairHandled
    /\ last.e1.message_type = "peer-joined"
    /\ last.e2.message_type = "peer-left"
    /\ last.e1.peer_id # last.e2.peer_id
    /\ PeerSet(client["A"].connected_peers) # PeerSet(last.before["A"])

\* ------------------------------------------------- claims about the join
\* a frame that asks for membership, under either spelling of its tag
IsJoin(f) ==
    \/ "type" \in DOMAIN f /\ f.type = "join"
    \/ "message_type" \in DOMAIN f /\ f.message_type = "join"

JoinsSent(c) == {i \in 1..Len(wire[c]) : IsJoin(wire[c][i])}

\* C16: for a connect of the relay client, the join is sent exactly once and only after the
\* socket has reached its open state: once the socket is open and the join
\* step of the connect has run, exactly one join is on the wire (a join
\* attempted while the socket was still connecting would have sent none).
C16_JoinOnceAfterOpen ==
    \A c \in Clients :
        (variant = "ws" /\ client[c].ws = "open" /\ client[c].join_timer = "fired") =>
            Cardinality(JoinsSent(c)) = 1

\* C17: every message the relay client puts on the wire uses the envelope's field
\* names; the join carries its tag in message_type, its room in room_id
\* ("transaction-room") and its identity in peer_id (the endpoint id).
C17_EnvelopeFieldNames ==
    variant = "ws" => \A c \in Clients : \A i \in 1..Len(wire[c]) :
        /\ {"message_type", "room_id", "peer_id"} \subseteq DOMAIN wire[c][i]
        /\ IsJoin(wire[c][i]) =>
              /\ wire[c][i].message_type = "join"
              /\ wire[c][i].room_id = Some("transaction-room")
              /\ wire[c][i].peer_id = Some(client[c].endpoint_id)

\* ------------------------------------------------ claims about the gateway
\* the rows of a log stored under the uuid an id text spells
RowsOf(rows, text) == {r \in rows : Some(r.id) = ParseUuid(text)}

\* C18: for a log holding N transactions, global_stats returns
\* total_transactions = N, total_volume = the sum of all amounts and
\* average_transaction = total_volume / N, which is 0 when N = 0.
C18_AggregationConsistent ==
    (resp.op = "stats" /\ resp.status = 200) =>
        LET N == Cardinality(resp.before)
            stats == Unwrap(resp.body)
        IN /\ stats.total_transactions = N
           /\ stats.total_volume = SumAmount(resp.before)
           /\ N = 0 => stats.average_transaction.num = 0
           /\ N > 0 => stats.average_transaction.num * N
                          = SumAmount(resp.before) * stats.average_transaction.den

\* global_stats has answered for a log of one transaction
C18_Witness ==
    /\ resp.op = "stats"
    /\ resp.status = 200
    /\ Cardinality(resp.before) = 1
    /\ Unwrap(resp.body).average_transaction.num > 0

\* C19: after any sequence of appends, repeated appends of an id included,
\* the log holds exactly one record for each id that was appended with
\* success.
C19_OneRecordPerId ==
    \A text \in appended : Cardinality(RowsOf(tx_log, text)) = 1

\* an id that was in the log has been appended again, with other fields
C19_Witness ==
    /\ resp.op = "create"
    /\ resp.status = 201
    /\ RowsOf(resp.before, resp.request.id) # {}
    /\ RowsOf(resp.before, resp.request.id) # RowsOf(tx_log, resp.request.id)

\* C20: append answers InvalidId (400) when the id is no well-formed
\* identifier, StoreUnavailable (500) when the id is well-formed and the
\* store write fails, and success (201) otherwise; on InvalidId the log is
\* left as it was, also when the store is unavailable.
C20_AppendStatus ==
    resp.op = "create" =>
        IF ~IsSome(ParseUuid(resp.request.id))
        THEN resp.status = 400 /\ tx_log = resp.before
        ELSE IF ~resp.up THEN resp.status = 500
        ELSE resp.status = 201

\* an append with a malformed id has been refused while the store was
\* unavailable and the log held a record
C20_Witness ==
    /\ resp.op = "create"
    /\ resp.status = 400
    /\ ~resp.up
    /\ tx_log # {}

\* the rows of a log that endpoint e sent, and those it received
SentBy(rows, e) == {r \in rows : r.from_endpoint = e}
ReceivedBy(rows, e) == {r \in rows : r.to_endpoint = e}

\* the endpoints that appear in a log
EndpointsOf(rows) ==
    {r.from_endpoint : r \in rows} \cup {r.to_endpoint : r \in rows}

\* C25: in global_stats the per-endpoint entries are the two-sided fold over
\* the whole log: for each endpoint e of the log, total_sent is the sum of the
\* amounts of the records with from = e, total_received the sum of those with
\* to = e, and transaction_count the number of records with from = e (a
\* record that e only receives does not count).
C25_GlobalFoldTwoSided ==
    (resp.op = "stats" /\ resp.status = 200) =>
        LET rows == Unwrap(resp.request)
            endpoints == Unwrap(resp.body).endpoints
        IN /\ DOMAIN endpoints = EndpointsOf(rows)
           /\ \A e \in DOMAIN endpoints :
                /\ endpoints[e].endpoint_id = e
                /\ endpoints[e].total_sent = SumAmount(SentBy(rows, e))
                /\ endpoints[e].total_received = SumAmount(ReceivedBy(rows, e))
                /\ endpoints[e].transaction_count = Cardinality(SentBy(rows, e))

\* global_stats has answered for a log in which B receives twice and sends
\* nothing
C25_Witness ==
    /\ resp.op = "stats"
    /\ resp.status = 200
    /\ Cardinality(ReceivedBy(Unwrap(resp.request), "B")) = 2
    /\ SentBy(Unwrap(resp.request), "B") = {}
    /\ Unwrap(resp.body).endpoints["B"].transaction_count = 0

\* ------------------------------------- further claims about the ledger
\* C28: create(to, amount) builds a transaction with from = the ledger's id,
\* the given to and amount, and status "pending", and does not apply it: the
\* ledger's balance and applied count are as they were before the call.
C28_CreateDoesNotApply ==
    ledgerLast.op = "create" =>
        /\ ledgerLast.tx.from = ledger.id
        /\ ledgerLast.tx.to = ledgerLast.to
        /\ ledgerLast.tx.amount = ledgerLast.amount
        /\ ledgerLast.tx.status = "pending"
        /\ ledger.balance = ledgerLast.before.balance
        /\ ledger.transaction_count = ledgerLast.before.transaction_count

\* a ledger that has applied before has created a transaction to itself for
\* an amount it holds
C28_Witness ==
    /\ ledgerLast.op = "create"
    /\ ledger.transaction_count > 0
    /\ ledgerLast.to = ledger.id
    /\ ledgerLast.amount > 0
    /\ ledgerLast.amount <= ledger.balance

\* C29: along every run of a ledger the applied count never decreases, and
\* the balance differs between two consecutive states only when the step is
\* an apply of a transaction whose from or to is the ledger's id.
C29_CountMonotoneBalanceByApply ==
    [][/\ ledger'.transaction_count >= ledger.transaction_count
       /\ ledger'.balance # ledger.balance =>
             /\ ledgerCalls' = ledgerCalls + 1
             /\ ledgerLast'.op = "apply"
             /\ \/ ledgerLast'.tx.from = ledger.id
                \/ ledgerLast'.tx.to = ledger.id]_vars

\* an apply of a peer's transaction has credited the ledger and been counted
C29_Witness ==
    /\ LastIsApply
    /\ ledgerLast.tx.from # ledger.id
    /\ ledgerLast.tx.to = ledger.id
    /\ ledger.balance > ledgerLast.before.balance
    /\ ledger.transaction_count = ledgerLast.before.transaction_count + 1

\* C30: a newly created ledger has balance 1000 and applied count 0, and a
\* successful apply of a transaction with from = the ledger's id and amount
\* a <= balance lowers the balance by exactly a and raises the applied count
\* by exactly 1.
C30_NewLedgerAndDebit ==
    /\ (ledgerCalls = 0) => (ledger.balance = 1000 /\ ledger.transaction_count = 0)
    /\ (/\ LastIsApply
        /\ ledgerLast.result = "Ok"
        /\ ledgerLast.tx.from = ledger.id
        /\ ledgerLast.tx.amount <= ledgerLast.before.balance) =>
          /\ ledger.balance = ledgerLast.before.balance - ledgerLast.tx.amount
          /\ ledger.transaction_count = ledgerLast.before.transaction_count + 1

\* the new ledger has applied its own transaction of 150: 1000 -> 850, 0 -> 1
C30_Witness ==
    /\ LastIsApply
    /\ ledgerLast.result = "Ok"
    /\ ledgerLast.tx.from = ledger.id
    /\ ledgerLast.tx.amount = 150
    /\ ledgerLast.before.balance = 1000
    /\ ledgerLast.before.transaction_count = 0
    /\ ledger.balance = 850
    /\ ledger.transaction_count = 1

\* ---------------------------------- claims about get_by_id and list
\* the positions of history at which the uuid u was appended
AppendsOf(u) == {k \in 1..Len(history) : ParseUuid(history[k].id) = Some(u)}

\* the request that appended uuid u most recently
LatestAppend(u) ==
    history[CHOOSE k \in AppendsOf(u) : \A j \in AppendsOf(u) : j <= k]

\* the position at which the uuid an id text spells was first appended
FirstAppend(text) ==
    CHOOSE k \in AppendsOf(Unwrap(ParseUuid(text))) :
        \A j \in AppendsOf(Unwrap(ParseUuid(text))) : k <= j

\* C21 as stated: get_by_id returns InvalidId when the id is malformed,
\* NotFound when no record with that id is in the log, and otherwise (the
\* store answering) the stored transaction, whose id equals the requested id,
\* with the fields it was appended with.
C21_GetById ==
    resp.op = "get" =>
        IF ~IsSome(ParseUuid(resp.request)) THEN resp.status = 400
        ELSE resp.up =>
            IF RowsOf(resp.before, resp.request) = {} THEN resp.status = 404
            ELSE /\ resp.status = 200
                 /\ Unwrap(resp.body).id = resp.request
                 /\ Unwrap(resp.body) = LatestAppend(Unwrap(ParseUuid(resp.request)))

\* C21 with the id in the form the gateway writes it: InvalidId when the id
\* is malformed, NotFound when no record is stored under the uuid the id
\* spells, and otherwise (the store answering) the transaction most recently
\* appended under that uuid, its id as the hyphenated lower-case text of the
\* uuid and every other field as appended.
C21_GetByIdCanonical ==
    resp.op = "get" =>
        IF ~IsSome(ParseUuid(resp.request)) THEN resp.status = 400
        ELSE resp.up =>
            IF RowsOf(resp.before, resp.request) = {} THEN resp.status = 404
            ELSE /\ resp.status = 200
                 /\ ParseUuid(Unwrap(resp.body).id) = ParseUuid(resp.request)
                 /\ Unwrap(resp.body) =
                       [LatestAppend(Unwrap(ParseUuid(resp.request))) EXCEPT
                           !.id = UuidToString(Unwrap(ParseUuid(resp.request)))]

\* get_by_id has returned a transaction that was appended twice, under an
\* id spelled in another way than the request spells it
C21_Witness ==
    /\ resp.op = "get"
    /\ resp.status = 200
    /\ Cardinality(AppendsOf(Unwrap(ParseUuid(resp.request)))) = 2
    /\ LatestAppend(Unwrap(ParseUuid(resp.request))).id # resp.request

\* C22: list returns its result sorted by timestamp descending: of two
\* adjacent transactions the earlier one's timestamp is >= the later one's,
\* with or without an endpoint filter.
C22_ListSortedDescending ==
    (resp.op = "list" /\ resp.status = 200) =>
        \A k \in 1..(Len(Unwrap(resp.body)) - 1) :
            Unwrap(resp.body)[k].timestamp >= Unwrap(resp.body)[k + 1].timestamp

\* list, with an endpoint filter, has returned two transactions that the
\* store handed back oldest first
C22_Witness ==
    /\ resp.op = "list"
    /\ resp.status = 200
    /\ IsSome(resp.request.endpoint)
    /\ Len(resp.request.order) = 2
    /\ resp.request.order[1].timestamp < resp.request.order[2].timestamp
    /\ Len(Unwrap(resp.body)) = 2

\* C23: in the sequence list returns, transactions with equal timestamps
\* appear in the order in which they were appended to the log, whatever
\* order the store returns its rows in.
C23_TiesInAppendOrder ==
    (resp.op = "list" /\ resp.status = 200) =>
        \A k, l \in 1..Len(Unwrap(resp.body)) :
            (k < l /\ Unwrap(resp.body)[k].timestamp = Unwrap(resp.body)[l].timestamp) =>
                FirstAppend(Unwrap(resp.body)[k].id) < FirstAppend(Unwrap(resp.body)[l].id)

\* the limit a request asks for: its limit parameter, 100 when the parameter
\* is absent or is no integer
AskedLimit(param) ==
    IF IsSome(param) /\ Unwrap(param) \in {"-1", "0", "1", "2"}
    THEN Unwrap(ParseI32(Unwrap(param)))
    ELSE 100

\* C24: list never returns more than limit transactions, limit being the
\* request's limit parameter, and 100 when the parameter is absent or does
\* not parse as an integer.
C24_ListAtMostLimit ==
    (resp.op = "list" /\ resp.status = 200) =>
        Len(Unwrap(resp.body)) <= AskedLimit(resp.request.limit)

\* list has been asked for one transaction of two that match and has
\* returned one
C24_Witness ==
    /\ resp.op = "list"
    /\ resp.status = 200
    /\ resp.request.limit = Some("1")
    /\ Len(resp.request.order) = 2
    /\ Len(Unwrap(resp.body)) = 1

\* ------------------------------ claims about the per-endpoint statistics
\* the rows of a log in which endpoint e is the sender or the receiver
Touching(rows, e) == SentBy(rows, e) \cup ReceivedBy(rows, e)

\* C26: endpoint_stats(id) folds only the records in which id is the sender
\* or the receiver, and its transaction_count counts every such record,
\* sent or received: for the log {A->B 100, B->C 40}, endpoint_stats(B) has
\* transaction_count 2, total_sent 40, total_received 100, balance_change 60.
C26_EndpointStatsCountsBoth ==
    (resp.op = "endpoint_stats" /\ resp.status = 200) =>
        LET id == resp.request
            rows == resp.before
            stats == Unwrap(resp.body)
        IN /\ stats.endpoint_id = id
           /\ stats.transaction_count = Cardinality(Touching(rows, id))
           /\ stats.total_sent = SumAmount(SentBy(rows, id))
           /\ stats.total_received = SumAmount(ReceivedBy(rows, id))
           /\ ({[from |-> r.from_endpoint, to |-> r.to_endpoint, amount |-> r.amount] :
                    r \in rows}
                 = {[from |-> "A", to |-> "B", amount |-> 100],
                    [from |-> "B", to |-> "C", amount |-> 40]}
               /\ Cardinality(rows) = 2 /\ id = "B")
              => /\ stats.transaction_count = 2
                 /\ stats.total_sent = 40
                 /\ stats.total_received = 100
                 /\ stats.balance_change = 60

\* endpoint_stats(B) has answered for the log {A->B 100, B->C 40}
C26_Witness ==
    /\ resp.op = "endpoint_stats"
    /\ resp.status = 200
    /\ resp.request = "B"
    /\ Cardinality(resp.before) = 2
    /\ \E r \in resp.before :
          r.from_endpoint = "A" /\ r.to_endpoint = "B" /\ r.amount = 100
    /\ \E r \in resp.before :
          r.from_endpoint = "B" /\ r.to_endpoint = "C" /\ r.amount = 40
    /\ Unwrap(resp.body).transaction_count = 2

IdsOf(transactions) == {transactions[k].id : k \in 1..Len(transactions)}

\* C31: when more than limit records match the request, list returns the
\* limit records with the greatest timestamps: it returns limit transactions
\* and no matching record left out is newer than one returned.
C31_ListNewestFirstCut ==
    (/\ resp.op = "list"
     /\ resp.status = 200
     /\ Len(resp.request.order) > AskedLimit(resp.request.limit)) =>
        /\ Len(Unwrap(resp.body)) = AskedLimit(resp.request.limit)
        /\ \A k \in 1..Len(Unwrap(resp.body)) :
              \A r \in Matching(resp.before, resp.request.endpoint) :
                  UuidToString(r.id) \notin IdsOf(Unwrap(resp.body)) =>
                      r.timestamp <= Unwrap(resp.body)[k].timestamp

\* the sum of one field over the entries of an endpoint map
RECURSIVE SumCount(_)
SumCount(endpoints) ==
    IF DOMAIN endpoints = {} THEN 0
    ELSE LET e == CHOOSE x \in DOMAIN endpoints : TRUE
         IN endpoints[e].transaction_count
              + SumCount([x \in (DOMAIN endpoints) \ {e} |-> endpoints[x]])

RECURSIVE SumSent(_)
SumSent(endpoints) ==
    IF DOMAIN endpoints = {} THEN 0
    ELSE LET e == CHOOSE x \in DOMAIN endpoints : TRUE
         IN endpoints[e].total_sent
              + SumSent([x \in (DOMAIN endpoints) \ {e} |-> endpoints[x]])

RECURSIVE SumReceived(_)
SumReceived(endpoints) ==
    IF DOMAIN endpoints = {} THEN 0
    ELSE LET e == CHOOSE x \in DOMAIN endpoints : TRUE
         IN endpoints[e].total_received
              + SumReceived([x \in (DOMAIN endpoints) \ {e} |-> endpoints[x]])

RECURSIVE SumBalanceChange(_)
SumBalanceChange(endpoints) ==
    IF DOMAIN endpoints = {} THEN 0
    ELSE LET e == CHOOSE x \in DOMAIN endpoints : TRUE
         IN endpoints[e].balance_change
              + SumBalanceChange([x \in (DOMAIN endpoints) \ {e} |-> endpoints[x]])

\* C32: every global_stats response is consistent with a single snapshot of
\* the log: total_transactions equals the sum of transaction_count over the
\* returned endpoints and total_volume the sum of total_sent over them, also
\* when an append runs while the request is served.
C32_StatsOneSnapshot ==
    (resp.op = "stats" /\ resp.status = 200) =>
        /\ Unwrap(resp.body).total_transactions = SumCount(Unwrap(resp.body).endpoints)
        /\ Unwrap(resp.body).total_volume = SumSent(Unwrap(resp.body).endpoints)

GlobalEntry(rows, e) == FoldEndpoints(rows, <<>>)[e]

\* C34: for a fixed log and an endpoint e that appears in it,
\* endpoint_stats(e) and the entry for e in global_stats agree on total_sent,
\* total_received and balance_change, and endpoint_stats(e).transaction_count
\* is the global entry's transaction_count plus the number of records in
\* which e is the receiver but not the sender.
C34_EndpointStatsMatchGlobal ==
    (/\ resp.op = "endpoint_stats"
     /\ resp.status = 200
     /\ resp.request \in EndpointsOf(resp.before)) =>
        LET e == resp.request
            rows == resp.before
            stats == Unwrap(resp.body)
        IN /\ stats.total_sent = GlobalEntry(rows, e).total_sent
           /\ stats.total_received = GlobalEntry(rows, e).total_received
           /\ stats.balance_change = GlobalEntry(rows, e).balance_change
           /\ stats.transaction_count >= GlobalEntry(rows, e).transaction_count
           /\ stats.transaction_count - GlobalEntry(rows, e).transaction_count
                 = Cardinality(ReceivedBy(rows, e) \ SentBy(rows, e))

\* endpoint_stats(B) has answered for a log in which B receives from A and
\* sends to C, so that the two counts differ by one
C34_Witness ==
    /\ resp.op = "endpoint_stats"
    /\ resp.status = 200
    /\ resp.request = "B"
    /\ Cardinality(ReceivedBy(resp.before, "B") \ SentBy(resp.before, "B")) = 1
    /\ Cardinality(SentBy(resp.before, "B")) = 1
    /\ Unwrap(resp.body).transaction_count = 2
    /\ GlobalEntry(resp.before, "B").transaction_count = 1

\* the ids, as uuids, that were appended with success
AppendedIds == {Unwrap(ParseUuid(history[k].id)) : k \in 1..Len(history)}

\* C35: re-appending an id that is already in the log succeeds (the store
\* answering) and overwrites the stored record: the log holds as many records
\* as before, a later get_by_id of that id returns the fields of the most
\* recent append, and total_transactions in global_stats counts every
\* appended id once.
C35_ReappendOverwrites ==
    /\ (/\ resp.op = "create"
        /\ resp.up
        /\ RowsOf(resp.before, resp.request.id) # {}) =>
           /\ resp.status = 201
           /\ Cardinality(tx_log) = Cardinality(resp.before)
           /\ RowsOf(tx_log, resp.request.id)
                 = {Row(Unwrap(ParseUuid(resp.request.id)), resp.request)}
    /\ (resp.op = "get" /\ resp.status = 200) =>
           LET latest == LatestAppend(Unwrap(ParseUuid(resp.request)))
               body == Unwrap(resp.body)
           IN /\ body.from_endpoint = latest.from_endpoint
              /\ body.to_endpoint = latest.to_endpoint
              /\ body.amount = latest.amount
              /\ body.timestamp = latest.timestamp
              /\ body.signature = latest.signature
              /\ body.status = latest.status
    /\ (resp.op = "stats" /\ resp.status = 200) =>
           Unwrap(resp.body).total_transactions <= Cardinality(AppendedIds)

\* an id has been appended twice, with other fields the second time, and
\* get_by_id has then returned it from a log of one record
C35_Witness ==
    /\ resp.op = "get"
    /\ resp.status = 200
    /\ Cardinality(resp.before) = 1
    /\ Cardinality(AppendsOf(Unwrap(ParseUuid(resp.request)))) = 2
    /\ Len(history) = 2
    /\ history[1].amount # history[2].amount
    /\ Unwrap(resp.body).amount = history[2].amount

\* ------------------------------------ further claims about the clients
\* C36: in the relay client, handling room-joined{peers} replaces the peer
\* set with exactly the carried snapshot, so that peers learned earlier that
\* are not in the snapshot are dropped, and a room-joined without a peers
\* field leaves the peer set unchanged.
C36_RoomJoinedReplacesPeers ==
    (variant = "ws" /\ Handled({"room-joined"})) =>
        IF IsSome(Unwrap(last.msg).peers)
        THEN /\ client[last.c].connected_peers = Unwrap(Unwrap(last.msg).peers)
             /\ \A q \in PeerSet(last.before.connected_peers) :
                   q \notin PeerSet(Unwrap(Unwrap(last.msg).peers)) =>
                       q \notin PeerSet(client[last.c].connected_peers)
        ELSE client[last.c].connected_peers = last.before.connected_peers

\* the relay client has handled a room-joined whose snapshot lacks a peer
\* that it tracked before
C36_Witness ==
    /\ variant = "ws"
    /\ Handled({"room-joined"})
    /\ IsSome(Unwrap(last.msg).peers)
    /\ Unwrap(Unwrap(last.msg).peers) # <<>>
    /\ \E q \in PeerSet(last.before.connected_peers) :
          q \notin PeerSet(Unwrap(Unwrap(last.msg).peers))

\* the step handles a message of one of these types
Handles(types) ==
    /\ last'.op = "frame"
    /\ last'.handled
    /\ Unwrap(last'.msg).message_type \in types

\* the steps of the relay client as C37 has them but for the peer set: the
\* status moves only to Connected, does so on welcome and on room-joined and
\* on nothing else, and is not left again
StatusSteps ==
    /\ client["A"].connection_status = "Connected"
          => client'["A"].connection_status = "Connected"
    /\ client'["A"].connection_status # client["A"].connection_status
          => Handles({"welcome", "room-joined"})
    /\ Handles({"welcome", "room-joined"})
          => client'["A"].connection_status = "Connected"

\* C37 as stated: the relay client's connection status starts as
\* Disconnected, becomes Connected on welcome or room-joined, and once
\* Connected stays Connected in every later state; no message, socket close
\* or socket error sets it back to Disconnected or leaves a connected client
\* that tracked peers without any.
C37_ConnectedForGood ==
    /\ variant = "ws" => client["A"].connection_status = "Disconnected"
    /\ [][variant = "ws" =>
            /\ StatusSteps
            /\ (/\ client["A"].connection_status = "Connected"
                /\ client["A"].connected_peers # <<>>)
                  => client'["A"].connected_peers # <<>>]_vars

\* C37 with the peer set changed by membership messages only: the status
\* starts as Disconnected, becomes Connected on welcome or room-joined and
\* stays Connected in every later state; a socket close, a socket error and
\* every message other than room-joined, peer-joined and peer-left leave the
\* peer set as it was, and the peer set becomes empty only through a
\* room-joined with an empty snapshot or a peer-left of the only tracked peer.
C37_ConnectedForGoodPeersByMembership ==
    /\ variant = "ws" => client["A"].connection_status = "Disconnected"
    /\ [][variant = "ws" =>
            /\ StatusSteps
            /\ client'["A"].connected_peers # client["A"].connected_peers
                  => Handles({"room-joined", "peer-joined", "peer-left"})
            /\ (client["A"].connected_peers # <<>> /\ client'["A"].connected_peers = <<>>)
                  => \/ /\ Handles({"room-joined"})
                        /\ Unwrap(last'.msg).peers = Some(<<>>)
                     \/ /\ Handles({"peer-left"})
                        /\ PeerSet(client["A"].connected_peers)
                              = {Unwrap(Unwrap(last'.msg).peer_id)}]_vars

\* the relay client's socket is closed while the client shows Connected and
\* tracks a peer
C37_Witness ==
    /\ variant = "ws"
    /\ client["A"].ws = "closed"
    /\ client["A"].connection_status = "Connected"
    /\ client["A"].connected_peers # <<>>

\* C38: send_transaction on a relay client that holds no socket (connect
\* never succeeded) sends nothing and still returns success, and since the
\* send path applies the transaction to the local ledger and the local log
\* before it sends, the debit stays in place although no peer is told of the
\* transaction.
C38_NoSocketSendSucceeds ==
    (/\ variant = "ws"
     /\ last.op = "click_send"
     /\ client[last.c].ws = "none"
     /\ last.result = "Ok") =>
        /\ wire[last.c] = <<>>
        /\ inbox = [c \in Clients |-> <<>>]
        /\ client[last.c].error_message # SendFailedMessage("ws")
        /\ client[last.c].tx_endpoint.balance
              = last.before.balance - Unwrap(last.tx).amount
        /\ client[last.c].tx_endpoint.transaction_count
              = last.before.transaction_count + 1
        /\ Unwrap(last.tx).id \in DOMAIN client[last.c].transactions

\* a relay client whose connect failed has run the send path for 150 to B
C38_Witness ==
    /\ variant = "ws"
    /\ last.op = "click_send"
    /\ client["A"].ws = "none"
    /\ client["A"].mounted
    /\ Unwrap(last.tx).to = "B"
    /\ Unwrap(last.tx).amount = 150
    /\ client["A"].tx_endpoint.balance = 850
    /\ wire["A"] = <<>>

====
